---------------------------- MODULE Spec2Model ----------------------------
(***************************************************************************)
(* Word-search generator: the puzzle generation of script.js              *)
(* (createPuzzle / createWordSearch / placeWordSmart) and of               *)
(* puzzleGenerator.ts (generatePuzzle), as one state machine.              *)
(*                                                                         *)
(* A grid is a function row -> (col -> cell), rows and columns numbered    *)
(* from 0 as in the source; a cell is "" (empty) or a one-letter string.   *)
(* A word is a sequence of one-letter strings; the source's word[i] is     *)
(* word[i + 1] here.                                                       *)
(***************************************************************************)
EXTENDS Integers, Sequences, FiniteSets, TLC

VARIABLES
    impl,            \* "script" (script.js createPuzzle) or "ts" (puzzleGenerator.ts generatePuzzle)
    words,           \* argument: the word list
    size,            \* argument: the grid size N
    directions,      \* argument: the four direction flags
    randomLetters,   \* the letters the random letter draws of this run range over
    pc,              \* position in createPuzzle / generatePuzzle
    attempt,         \* the outer loop's counter
    grid,            \* the running attempt's display grid
    solution,        \* the running attempt's solution grid
    wordsByLength,   \* the running attempt's sorted copy of words
    wi,              \* index (from 1) of the next word of wordsByLength
    tries,           \* the inner loop's counter: the calls of placeWordSmart made for that
                     \* word (0 where the inner loop is taken in one step)
    placedWords,     \* the running attempt's placed words
    failedWords,     \* the running attempt's failed words
    placedWordInfos, \* the running attempt's PlacedWordInfo list
    bestGrid, bestSolution, bestPlaced, bestFailed, bestScore, bestWordInfos,
    result,          \* the returned value
    retains,         \* history: how many times the best attempt was replaced
    firstWith,       \* history: firstWith[n] is the number of the first outer attempt that
                     \* placed n words, -1 while no attempt has
    retainedAt,      \* history: the value of attempt when the best attempt was last replaced
    call,            \* a helper function called on its own: its name and arguments
    ret,             \* what that call returned
    solutionHidden,  \* page: solutionGrid has the class "hidden"
    outlineChecked,  \* page: outlineFoundWordsCheckbox.checked
    colorChecked,    \* page: colorFoundWordsCheckbox.checked
    hasPuzzle,       \* page: currentPuzzle and currentSolution are set, and solutionGrid
                     \* holds the table renderGrid built
    overlay,         \* page: solutionGrid holds an svg.capsule-overlay
    timers           \* page: the pending setTimeout(() => this.renderCapsuleOverlay(), 200)

vars == << impl, words, size, directions, randomLetters, pc, attempt, grid, solution,
           wordsByLength, wi, tries, placedWords, failedWords,
           placedWordInfos, bestGrid, bestSolution, bestPlaced, bestFailed,
           bestScore, bestWordInfos, result, retains, firstWith, retainedAt,
           call, ret, solutionHidden, outlineChecked, colorChecked, hasPuzzle,
           overlay, timers >>

attemptVars == << grid, solution, wordsByLength, wi, tries,
                  placedWords, failedWords, placedWordInfos >>

bestVars == << bestGrid, bestSolution, bestPlaced, bestFailed, bestScore,
               bestWordInfos >>

inputVars == << impl, words, size, directions, randomLetters >>

fnVars == << call, ret >>

historyVars == << retains, firstWith, retainedAt >>

uiVars == << solutionHidden, outlineChecked, colorChecked, hasPuzzle, overlay, timers >>

puzzleVars == << impl, words, size, directions, randomLetters, pc, attempt, grid, solution,
                 wordsByLength, wi, tries, placedWords, failedWords,
                 placedWordInfos, bestGrid, bestSolution, bestPlaced,
                 bestFailed, bestScore, bestWordInfos, result, retains,
                 firstWith, retainedAt >>

----------------------------------------------------------------------------
(* Bounds of the model and constants of the program.                       *)

\* The calls explored have grid size at most MaxSize.
MaxSize == 2

\* for (let attempt = 0; attempt < 10; attempt++)
MaxOuterAttempts == 10

\* const attemptsPerWord = 1000
attemptsPerWord == 1000

\* The letters A-Z a cell may hold.
Alphabet == { "A", "B", "C", "D", "E", "F", "G", "H", "I", "J", "K", "L", "M",
              "N", "O", "P", "Q", "R", "S", "T", "U", "V", "W", "X", "Y", "Z" }

\* const letters = "ABCDEFGHIJKLMNOPQRSTUVWXYZ": the draw
\* letters[Math.floor(Math.random() * letters.length)] can give any of them;
\* the model draws the first or the last one, or the last one alone in the
\* runs on the larger grids (randomLetters).
letters == { "A", "Z" }

\* null for a grid variable (let bestGrid = null): the grid without rows.
\* Every grid the program creates here has size >= 1 rows.
NoGrid == [i \in {} |-> ""]

IsGrid(g) == DOMAIN g # {}

----------------------------------------------------------------------------
(* Grid helpers.                                                           *)

GridSize(g) == Cardinality(DOMAIN g)

createEmptyGrid(sz) == [i \in 0 .. sz - 1 |-> [j \in 0 .. sz - 1 |-> ""]]

\* Faulty variant of getDirectionVectors: the reversed vectors are pushed
\* whenever reverse is set, whatever the axis flags.
getDirectionVectorsReverseAlone(d) ==
    (IF d.horizontal THEN << <<0, 1>> >> ELSE << >>)
    \o (IF d.reverse THEN << <<0, -1>> >> ELSE << >>)
    \o (IF d.vertical THEN << <<1, 0>> >> ELSE << >>)
    \o (IF d.reverse THEN << <<-1, 0>> >> ELSE << >>)
    \o (IF d.diagonal THEN << <<1, 1>>, <<1, -1>> >> ELSE << >>)
    \o (IF d.reverse THEN << <<-1, 1>>, <<-1, -1>> >> ELSE << >>)

getDirectionVectors(d) ==
    LET h  == IF d.horizontal
              THEN << <<0, 1>> >> \o (IF d.reverse THEN << <<0, -1>> >> ELSE << >>)
              ELSE << >>
        v  == IF d.vertical
              THEN << <<1, 0>> >> \o (IF d.reverse THEN << <<-1, 0>> >> ELSE << >>)
              ELSE << >>
        dg == IF d.diagonal
              THEN << <<1, 1>>, <<1, -1>> >>
                   \o (IF d.reverse THEN << <<-1, 1>>, <<-1, -1>> >> ELSE << >>)
              ELSE << >>
    IN  h \o v \o dg

\* The cells a word occupies from a start along a direction, index 0..length-1.
CellAt(startRow, startCol, direction, i) ==
    << startRow + i * direction[1], startCol + i * direction[2] >>

InBounds(sz, row, col) == ~(row < 0 \/ row >= sz \/ col < 0 \/ col >= sz)

\* Faulty variant of canPlaceWord: only the start cell has to lie inside the
\* grid, and the cells of the word beyond the grid's edge are passed over.
canPlaceWordClipped(g, word, startRow, startCol, direction) ==
    /\ InBounds(GridSize(g), startRow, startCol)
    /\ \A i \in 0 .. Len(word) - 1 :
           LET rc == CellAt(startRow, startCol, direction, i)
           IN  InBounds(GridSize(g), rc[1], rc[2])
                   => ~(g[rc[1]][rc[2]] # "" /\ g[rc[1]][rc[2]] # word[i + 1])

\* Faulty variant of canPlaceWord: a cell that holds a letter is refused even
\* when the letter is the word's.
canPlaceWordEmptyOnly(g, word, startRow, startCol, direction) ==
    \A i \in 0 .. Len(word) - 1 :
        LET rc == CellAt(startRow, startCol, direction, i)
        IN  /\ InBounds(GridSize(g), rc[1], rc[2])
            /\ g[rc[1]][rc[2]] = ""

\* Faulty variant of canPlaceWord: the bounds test without the letter test.
canPlaceWordAllowOverwrite(g, word, startRow, startCol, direction) ==
    \A i \in 0 .. Len(word) - 1 :
        LET rc == CellAt(startRow, startCol, direction, i)
        IN  InBounds(GridSize(g), rc[1], rc[2])

canPlaceWord(g, word, startRow, startCol, direction) ==
    \A i \in 0 .. Len(word) - 1 :
        LET rc == CellAt(startRow, startCol, direction, i)
        IN  /\ InBounds(GridSize(g), rc[1], rc[2])
            /\ ~(g[rc[1]][rc[2]] # "" /\ g[rc[1]][rc[2]] # word[i + 1])

\* The cells canPlaceWord reads (grid[row][col]): round i of the loop is run
\* when no earlier round has returned, and reads its cell after its bounds
\* test has passed.
canPlaceWordReads(g, word, startRow, startCol, direction) ==
    { CellAt(startRow, startCol, direction, i) :
        i \in { k \in 0 .. Len(word) - 1 :
                  /\ canPlaceWord(g, SubSeq(word, 1, k), startRow, startCol,
                                  direction)
                  /\ LET rc == CellAt(startRow, startCol, direction, k)
                     IN  InBounds(GridSize(g), rc[1], rc[2]) } }

\* One grid after the loop of placeWordAt has written the word into it.
RECURSIVE WriteWord(_, _, _, _, _, _)
WriteWord(g, word, startRow, startCol, direction, i) ==
    IF i >= Len(word) THEN g
    ELSE LET rc == CellAt(startRow, startCol, direction, i)
         IN  WriteWord([g EXCEPT ![rc[1]][rc[2]] = word[i + 1]],
                       word, startRow, startCol, direction, i + 1)

\* Faulty variant of placeWordAt: the solution grid is not written.
placeWordAtGridOnly(g, sol, word, startRow, startCol, direction) ==
    << WriteWord(g, word, startRow, startCol, direction, 0), sol >>

\* placeWordAt of script.js writes grid and solution; the pair after the call.
placeWordAt(g, sol, word, startRow, startCol, direction) ==
    << WriteWord(g, word, startRow, startCol, direction, 0),
       WriteWord(sol, word, startRow, startCol, direction, 0) >>

countOverlap(g, word, startRow, startCol, direction) ==
    Cardinality({ i \in 0 .. Len(word) - 1 :
        LET rc == CellAt(startRow, startCol, direction, i)
        IN  g[rc[1]][rc[2]] = word[i + 1] })

countFilledCells(g) ==
    Cardinality({ rc \in (DOMAIN g) \X (DOMAIN g) : g[rc[1]][rc[2]] # "" })

\* Faulty variant of calculateSpacingScore: the empty neighbours are the ones
\* counted.
calculateSpacingScoreCountsEmpty(g, word, startRow, startCol, direction) ==
    0 - Cardinality({ t \in (0 .. Len(word) - 1) \X { -1, 0, 1 } \X { -1, 0, 1 } :
        LET rc       == CellAt(startRow, startCol, direction, t[1])
            checkRow == rc[1] + t[2]
            checkCol == rc[2] + t[3]
        IN  /\ InBounds(GridSize(g), checkRow, checkCol)
            /\ g[checkRow][checkCol] = ""
            /\ (checkRow # rc[1] \/ checkCol # rc[2]) })

calculateSpacingScore(g, word, startRow, startCol, direction) ==
    0 - Cardinality({ t \in (0 .. Len(word) - 1) \X { -1, 0, 1 } \X { -1, 0, 1 } :
        LET rc       == CellAt(startRow, startCol, direction, t[1])
            checkRow == rc[1] + t[2]
            checkCol == rc[2] + t[3]
        IN  /\ InBounds(GridSize(g), checkRow, checkCol)
            /\ g[checkRow][checkCol] # ""
            /\ (checkRow # rc[1] \/ checkCol # rc[2]) })

\* Twice the score of placeWordSmart (the weights 1.5 and 0.5 made integers);
\* density < 0.3 is filledCells / totalCells < 3 / 10.
score2(filledCells, totalCells, overlap, spacing) ==
    IF 10 * filledCells < 3 * totalCells
    THEN 2 * (spacing * 2 + overlap)
    ELSE IF 10 * filledCells < 6 * totalCells
         THEN 2 * spacing + overlap * 3
         ELSE 2 * (overlap * 2) + spacing

\* positions of placeWordSmart before the shuffle: row-major.
positions(sz) ==
    [k \in 1 .. sz * sz |-> << (k - 1) \div sz, (k - 1) % sz >>]

\* shuffleArray draws a permutation of the array. The orders the model draws
\* are the rotations of the array: every element comes first in one of them,
\* so every candidate is the first one scanned under some pair of draws (what
\* generatePuzzle's first-fit placement depends on), and the entries of best
\* in placeWordSmart come in more than one order.
Rotate(s, k) == [i \in 1 .. Len(s) |-> s[((i + k - 2) % Len(s)) + 1]]

shuffleArray(array) ==
    IF Len(array) = 0 THEN { array }
    ELSE { Rotate(array, k) : k \in 1 .. Len(array) }

\* The candidates in the order of the two nested for loops.
scanOrder(dirs, poss) ==
    [k \in 1 .. Len(dirs) * Len(poss) |->
        LET d == dirs[((k - 1) \div Len(poss)) + 1]
            p == poss[((k - 1) % Len(poss)) + 1]
        IN  << p[1], p[2], d[1], d[2] >>]


----------------------------------------------------------------------------
(* placeWordSmart of script.js.                                            *)

\* let bestScore = -1
initialBestScore == -1

\* The value of score for one candidate that canPlaceWord accepts, doubled.
candidateScore2(g, word, c, filledCells, totalCells) ==
    LET dir == << c[3], c[4] >>
    IN  score2(filledCells, totalCells,
               countOverlap(g, word, c[1], c[2], dir),
               calculateSpacingScore(g, word, c[1], c[2], dir))

\* Faulty variant of scanCandidates: a candidate with a higher score is pushed
\* to best without best being emptied first.
RECURSIVE scanCandidatesKeepsLower(_, _, _, _, _, _)
scanCandidatesKeepsLower(cands, lo, hi, acc, legal, sc2) ==
    IF lo > hi THEN acc
    ELSE IF lo = hi
         THEN LET c == cands[lo]
              IN  IF legal[c]
                  THEN IF sc2[c] > acc.bestScore2
                       THEN [best |-> Append(acc.best, c), bestScore2 |-> sc2[c]]
                       ELSE IF sc2[c] = acc.bestScore2
                            THEN [acc EXCEPT !.best = Append(@, c)]
                            ELSE acc
                  ELSE acc
         ELSE CHOOSE scanned \in
                  { scanCandidatesKeepsLower(cands, (lo + hi) \div 2 + 1, hi,
                                             firstHalf, legal, sc2)
                    : firstHalf \in
                        { scanCandidatesKeepsLower(cands, lo, (lo + hi) \div 2, acc,
                                                   legal, sc2) } } : TRUE

\* Faulty variant of scanCandidates: the loops are left after the first
\* candidate canPlaceWord accepts.
scanCandidatesFirstLegalOnly(cands, lo, hi, acc, legal, sc2) ==
    LET accepted == { k \in lo .. hi : legal[cands[k]] }
    IN  IF accepted = {} THEN acc
        ELSE LET c == cands[CHOOSE k \in accepted : \A j \in accepted : k <= j]
             IN  IF sc2[c] > acc.bestScore2
                 THEN [best |-> << c >>, bestScore2 |-> sc2[c]]
                 ELSE IF sc2[c] = acc.bestScore2
                      THEN [acc EXCEPT !.best = Append(@, c)]
                      ELSE acc

\* The two nested for loops over the candidates: best and bestScore (doubled,
\* bestScore2) after the candidates lo .. hi of the scan, from their values acc
\* before them; one candidate is one round of the inner loop, and a longer
\* stretch is its first half followed by its second half. legal[c] is
\* canPlaceWord for candidate c and sc2[c] its doubled score (both depend on
\* the candidate alone, as the grid does not change before the loops end).
RECURSIVE scanCandidates(_, _, _, _, _, _)
scanCandidates(cands, lo, hi, acc, legal, sc2) ==
    IF lo > hi THEN acc
    ELSE IF lo = hi
         THEN LET c == cands[lo]
              IN  IF legal[c]
                  THEN IF sc2[c] > acc.bestScore2
                       THEN [best |-> << c >>, bestScore2 |-> sc2[c]]
                       ELSE IF sc2[c] = acc.bestScore2
                            THEN [acc EXCEPT !.best = Append(@, c)]
                            ELSE acc
                  ELSE acc
         \* bestScore and best after the first half go into the second
         \* half: the set of one element has the first half computed
         \* before the second half starts.
         ELSE CHOOSE scanned \in
                  { scanCandidates(cands, (lo + hi) \div 2 + 1, hi,
                                   firstHalf, legal, sc2)
                    : firstHalf \in
                        { scanCandidates(cands, lo, (lo + hi) \div 2, acc,
                                         legal, sc2) } } : TRUE

PlacedInfo(word, c) ==
    [word |-> word, startRow |-> c[1], startCol |-> c[2],
     dRow |-> c[3], dCol |-> c[4], length |-> Len(word)]

\* What a call returns and leaves behind: info is << >> for null and
\* << PlacedWordInfo >> otherwise; grid and solution are the two arrays after
\* the call.
Miss(g, sol) == [info |-> << >>, grid |-> g, solution |-> sol]

Commit(g, sol, word, c) ==
    LET both == placeWordAt(g, sol, word, c[1], c[2], << c[3], c[4] >>)
    IN  [info |-> << PlacedInfo(word, c) >>, grid |-> both[1], solution |-> both[2]]

\* Every outcome of one call, over the draws of the two shuffles and of the
\* index into best.
placeWordSmart(g, sol, word, dvs) ==
    LET sz          == GridSize(g)
        filledCells == countFilledCells(g)
        totalCells  == sz * sz
        all         == scanOrder(dvs, positions(sz))
        cset        == { all[k] : k \in 1 .. Len(all) }
        legal       == [c \in cset |->
                           canPlaceWord(g, word, c[1], c[2], << c[3], c[4] >>)]
        sc2         == [c \in cset |->
                           IF legal[c]
                           THEN candidateScore2(g, word, c, filledCells, totalCells)
                           ELSE 0]
    IN  UNION { LET best == scanCandidates(
                                scanOrder(shuffledDirections, shuffledPositions),
                                1, Len(all),
                                [best |-> << >>, bestScore2 |-> 2 * initialBestScore],
                                legal, sc2).best
                IN  IF Len(best) > 0
                    THEN { Commit(g, sol, word, best[n]) : n \in 1 .. Len(best) }
                    ELSE { Miss(g, sol) }
              : shuffledDirections \in shuffleArray(dvs),
                shuffledPositions \in shuffleArray(positions(sz)) }

\* for (let attempt = 0; attempt < attemptsPerWord; attempt++) of
\* createWordSearch: the loop ends with the first call that places the word,
\* or after attemptsPerWord calls that all returned null. A call that returns
\* null has left grid and solution as they were, so every call of the loop is
\* made with the same arguments and has the same outcomes.
placeWithRetries(g, sol, word, dvs) ==
    LET outs == placeWordSmart(g, sol, word, dvs)
    IN  { o \in outs : o.info # << >> }
        \cup (IF attemptsPerWord = 0 \/ \E o \in outs : o.info = << >>
              THEN { Miss(g, sol) } ELSE {})

\* Faulty variant of sortByLength: the copy is left in the input's order.
sortByLengthUnsorted(ws) == ws

\* [...words].sort((a, b) => b.length - a.length): stable, longest first.
RECURSIVE SortFrom(_, _)
SortFrom(ws, len) ==
    IF len < 0 THEN << >>
    ELSE SelectSeq(ws, LAMBDA w : Len(w) = len) \o SortFrom(ws, len - 1)

MaxLength(ws) ==
    IF Len(ws) = 0 THEN 0
    ELSE CHOOSE m \in { Len(ws[i]) : i \in 1 .. Len(ws) } :
             \A i \in 1 .. Len(ws) : Len(ws[i]) <= m

sortByLength(ws) == SortFrom(ws, MaxLength(ws))

\* Faulty variants of fillRemainingCells: no cell filled; every cell redrawn.
fillNothing(g) == { g }

fillEveryCell(g) == [DOMAIN g -> [DOMAIN g -> randomLetters]]

\* The cells fillRemainingCells finds empty.
EmptyCells(g) == { rc \in (DOMAIN g) \X (DOMAIN g) : g[rc[1]][rc[2]] = "" }

\* fillRemainingCells: every grid the random letters can give.
fillRemainingCells(g) ==
    { [i \in DOMAIN g |-> [j \in DOMAIN g |->
          IF g[i][j] = "" THEN f[<< i, j >>] ELSE g[i][j]]]
      : f \in [EmptyCells(g) -> randomLetters] }


----------------------------------------------------------------------------
(* gridUtils.ts, wordPlacer.ts and the placement of puzzleGenerator.ts.    *)

getDirectionVectorsTs(d) ==
    (IF d.horizontal
     THEN << <<0, 1>> >> \o (IF d.reverse THEN << <<0, -1>> >> ELSE << >>)
     ELSE << >>)
    \o (IF d.vertical
        THEN << <<1, 0>> >> \o (IF d.reverse THEN << <<-1, 0>> >> ELSE << >>)
        ELSE << >>)
    \o (IF d.diagonal
        THEN << <<1, 1>>, <<1, -1>> >>
             \o (IF d.reverse THEN << <<-1, 1>>, <<-1, -1>> >> ELSE << >>)
        ELSE << >>)

canPlaceWordTs(g, word, startRow, startCol, dRow, dCol) ==
    \A i \in 0 .. Len(word) - 1 :
        LET row == startRow + i * dRow
            col == startCol + i * dCol
        IN  /\ ~(row < 0 \/ row >= GridSize(g) \/ col < 0 \/ col >= GridSize(g))
            /\ ~(g[row][col] # "" /\ g[row][col] # word[i + 1])

\* The cells canPlaceWord of wordPlacer.ts reads, as for script.js.
canPlaceWordTsReads(g, word, startRow, startCol, dRow, dCol) ==
    { << startRow + i * dRow, startCol + i * dCol >> :
        i \in { k \in 0 .. Len(word) - 1 :
                  /\ canPlaceWordTs(g, SubSeq(word, 1, k), startRow, startCol,
                                    dRow, dCol)
                  /\ LET row == startRow + k * dRow
                         col == startCol + k * dCol
                     IN  ~(row < 0 \/ row >= GridSize(g)
                           \/ col < 0 \/ col >= GridSize(g)) } }

placeWordAtTs(g, word, startRow, startCol, dRow, dCol) ==
    WriteWord(g, word, startRow, startCol, << dRow, dCol >>, 0)

fillGridWithRandomLetters(g) ==
    { [i \in DOMAIN g |-> [j \in DOMAIN g |->
          IF g[i][j] = "" THEN f[<< i, j >>] ELSE g[i][j]]]
      : f \in [EmptyCells(g) -> randomLetters] }

\* The first candidate, in the order of the two nested loops, that
\* canPlaceWord accepts (legal[c]): << >> when there is none.
RECURSIVE firstPlaceable(_, _, _)
firstPlaceable(cands, k, legal) ==
    IF k > Len(cands) THEN << >>
    ELSE IF legal[cands[k]] THEN << cands[k] >>
         ELSE firstPlaceable(cands, k + 1, legal)

\* The body of for (const word of wordsByLength) in generatePuzzle: every
\* outcome over the draws of the two shuffles.
placeFirstFit(g, sol, word, dvs) ==
    LET all   == scanOrder(dvs, positions(GridSize(g)))
        cset  == { all[k] : k \in 1 .. Len(all) }
        legal == [c \in cset |-> canPlaceWordTs(g, word, c[1], c[2], c[3], c[4])]
    IN  { LET hit == firstPlaceable(
                         scanOrder(shuffledDirections, shuffledPositions), 1, legal)
          IN  IF hit = << >> THEN Miss(g, sol)
              ELSE LET c == hit[1]
                   IN  [info     |-> << PlacedInfo(word, c) >>,
                        grid     |-> placeWordAtTs(g, word, c[1], c[2], c[3], c[4]),
                        solution |-> placeWordAtTs(sol, word, c[1], c[2], c[3], c[4])]
          : shuffledDirections \in shuffleArray(dvs),
            shuffledPositions \in shuffleArray(positions(GridSize(g))) }

----------------------------------------------------------------------------
(* Inputs.                                                                 *)

A   == << "A" >>
B   == << "B" >>
AB  == << "A", "B" >>
AC  == << "A", "C" >>
BA  == << "B", "A" >>
CB  == << "C", "B" >>
CD  == << "C", "D" >>
ABC == << "A", "B", "C" >>

Dirs(h, v, d, r) ==
    [horizontal |-> h, vertical |-> v, diagonal |-> d, reverse |-> r]

Call(ws, sz, d) == [words |-> ws, size |-> sz, directions |-> d]

\* The calls explored: word list, grid size, direction flags.
Calls ==
    { Call(<< A, B >>, 1, Dirs(TRUE, FALSE, FALSE, FALSE)),
      Call(<< AB, CD >>, 1, Dirs(TRUE, TRUE, FALSE, FALSE)),
      Call(<< AB, CD >>, 2, Dirs(FALSE, FALSE, FALSE, FALSE)),
      Call(<< AB, CD >>, 2, Dirs(FALSE, FALSE, FALSE, TRUE)),
      Call(<< AB, CD >>, 2, Dirs(TRUE, FALSE, FALSE, FALSE)),
      Call(<< AB, CD >>, 2, Dirs(TRUE, TRUE, TRUE, FALSE)),
      Call(<< AB, BA >>, 2, Dirs(TRUE, FALSE, FALSE, TRUE)),
      Call(<< AB, ABC >>, 2, Dirs(TRUE, TRUE, FALSE, FALSE)),
      Call(<< ABC >>, 2, Dirs(TRUE, TRUE, TRUE, TRUE)),
      Call(<< AB, AC, CD >>, 2, Dirs(TRUE, TRUE, FALSE, FALSE)),
      Call(<< A, AB >>, 2, Dirs(TRUE, FALSE, FALSE, FALSE)),
      Call(<< AB, ABC >>, 3, Dirs(TRUE, TRUE, FALSE, FALSE)),
      Call(<< ABC >>, 3, Dirs(TRUE, TRUE, TRUE, TRUE)),
      Call(<< ABC, CB >>, 3, Dirs(TRUE, FALSE, FALSE, TRUE)) }

\* No helper function has been called on its own.
NoCall == [fn |-> "", args |-> << >>]

NoResult ==
    [returned |-> FALSE, success |-> "undefined", error |-> "",
     puzzle |-> NoGrid, solution |-> NoGrid,
     placedWords |-> << >>, failedWords |-> << >>, placedWordInfos |-> << >>]

\* The page after the constructor: index.html gives solutionGrid the class
\* hidden, no puzzle has been generated and no timer is pending.
PageLoaded ==
    /\ solutionHidden = TRUE
    /\ outlineChecked = FALSE
    /\ colorChecked = FALSE
    /\ hasPuzzle = FALSE
    /\ overlay = FALSE
    /\ timers = 0

Init ==
    /\ impl \in { "script", "ts" }
    /\ \E c \in Calls :
           /\ c.size <= MaxSize
           /\ words = c.words
           /\ size = c.size
           /\ directions = c.directions
    /\ randomLetters = letters
    /\ pc = "loop"
    /\ attempt = 0
    /\ grid = NoGrid
    /\ solution = NoGrid
    /\ wordsByLength = << >>
    /\ wi = 1
    /\ tries = 0
    /\ placedWords = << >>
    /\ failedWords = << >>
    /\ placedWordInfos = << >>
    /\ bestGrid = NoGrid
    /\ bestSolution = NoGrid
    /\ bestPlaced = << >>
    /\ bestFailed = words
    /\ bestScore = -1
    /\ bestWordInfos = << >>
    /\ result = NoResult
    /\ retains = 0
    /\ firstWith = [n \in 0 .. Len(words) |-> -1]
    /\ retainedAt = -1
    /\ call = NoCall
    /\ ret = << >>
    /\ PageLoaded

----------------------------------------------------------------------------
(* The steps of createPuzzle (script.js) and generatePuzzle (ts).          *)

\* Faulty variants of the two tests below: >= for >, and a break never taken.
isBetterOrEqual(placedCount, best) == placedCount >= best

neverPerfect(failed) == FALSE

\* if (result.placedWords.length > bestScore)
isBetter(placedCount, best) == placedCount > best

\* if (result.failedWords.length === 0) break
isPerfect(failed) == Len(failed) = 0

\* The loop test passes: createWordSearch starts (the two empty grids, the
\* sorted copy of the words).
StartAttempt ==
    /\ pc = "loop"
    /\ attempt < MaxOuterAttempts
    /\ grid' = createEmptyGrid(size)
    /\ solution' = createEmptyGrid(size)
    /\ wordsByLength' = sortByLength(words)
    /\ wi' = 1
    /\ tries' = 0
    /\ placedWords' = << >>
    /\ failedWords' = << >>
    /\ placedWordInfos' = << >>
    /\ pc' = "words"
    /\ UNCHANGED << fnVars, uiVars, inputVars, attempt, bestVars, result, historyVars >>

\* Faulty variant of RecordWord: a word that was not placed is not pushed to
\* failedWords.
RecordWordDropFailure(word, o) ==
    /\ grid' = o.grid
    /\ solution' = o.solution
    /\ IF o.info # << >>
       THEN /\ placedWords' = Append(placedWords, word)
            /\ placedWordInfos' = Append(placedWordInfos, o.info[1])
            /\ failedWords' = failedWords
       ELSE UNCHANGED << placedWords, placedWordInfos, failedWords >>
    /\ wi' = wi + 1
    /\ tries' = 0
    /\ UNCHANGED << fnVars, uiVars, inputVars, pc, attempt, wordsByLength, bestVars, result, historyVars >>

\* What one round of for (const word of wordsByLength) records of the
\* placement's outcome o, in both implementations.
RecordWord(word, o) ==
    /\ grid' = o.grid
    /\ solution' = o.solution
    /\ IF o.info # << >>
       THEN /\ placedWords' = Append(placedWords, word)
            /\ placedWordInfos' = Append(placedWordInfos, o.info[1])
            /\ failedWords' = failedWords
       ELSE /\ failedWords' = Append(failedWords, word)
            /\ UNCHANGED << placedWords, placedWordInfos >>
    /\ wi' = wi + 1
    /\ tries' = 0
    /\ UNCHANGED << fnVars, uiVars, inputVars, pc, attempt, wordsByLength, bestVars, result, historyVars >>

PlaceNextWord ==
    /\ pc = "words"
    /\ impl = "script"
    /\ wi <= Len(wordsByLength)
    /\ \E o \in placeWithRetries(grid, solution, wordsByLength[wi],
                                 getDirectionVectors(directions)) :
           RecordWord(wordsByLength[wi], o)

PlaceNextWordTs ==
    /\ pc = "words"
    /\ impl = "ts"
    /\ wi <= Len(wordsByLength)
    /\ \E o \in placeFirstFit(grid, solution, wordsByLength[wi],
                              getDirectionVectorsTs(directions)) :
           RecordWord(wordsByLength[wi], o)

\* The words are through: the fill, the comparison with the best attempt, the
\* break or the next round. The attempt's own arrays go out of scope.
FinishAttempt ==
    /\ pc = "words"
    /\ wi > Len(wordsByLength)
    /\ \E filled \in (IF impl = "script" THEN fillRemainingCells(grid)
                      ELSE fillGridWithRandomLetters(grid)) :
           IF isBetter(Len(placedWords), bestScore)
           THEN /\ bestScore' = Len(placedWords)
                /\ bestGrid' = filled
                /\ bestSolution' = solution
                /\ bestPlaced' = placedWords
                /\ bestFailed' = failedWords
                /\ bestWordInfos' = placedWordInfos
                /\ retains' = retains + 1
                /\ retainedAt' = attempt
           ELSE UNCHANGED << bestVars, retains, retainedAt >>
    /\ firstWith' = IF firstWith[Len(placedWords)] = -1
                    THEN [firstWith EXCEPT ![Len(placedWords)] = attempt]
                    ELSE firstWith
    /\ IF isPerfect(failedWords)
       THEN /\ pc' = "return"
            /\ attempt' = attempt
       ELSE /\ pc' = "loop"
            /\ attempt' = attempt + 1
    /\ grid' = NoGrid
    /\ solution' = NoGrid
    /\ wordsByLength' = << >>
    /\ wi' = 1
    /\ tries' = 0
    /\ placedWords' = << >>
    /\ failedWords' = << >>
    /\ placedWordInfos' = << >>
    /\ UNCHANGED << fnVars, uiVars, inputVars, result >>

\* The loop test fails after the last round.
ExitLoop ==
    /\ pc = "loop"
    /\ ~(attempt < MaxOuterAttempts)
    /\ pc' = "return"
    /\ UNCHANGED << fnVars, uiVars, inputVars, attempt, attemptVars, bestVars, result, historyVars >>

\* if (bestGrid) return {success: true, ...}; return {success: false, error}
Return ==
    /\ pc = "return"
    /\ impl = "script"
    /\ result' = IF IsGrid(bestGrid)
                 THEN [returned |-> TRUE, success |-> "true", error |-> "",
                       puzzle |-> bestGrid, solution |-> bestSolution,
                       placedWords |-> bestPlaced, failedWords |-> bestFailed,
                       placedWordInfos |-> bestWordInfos]
                 ELSE [NoResult EXCEPT !.returned = TRUE, !.success = "false",
                                       !.error = "Unable to place any words"]
    /\ pc' = "done"
    /\ UNCHANGED << fnVars, uiVars, inputVars, attempt, attemptVars, bestVars, historyVars >>

\* if (bestGrid && bestSolution) return {...}; return {empty grids, ...}
ReturnTs ==
    /\ pc = "return"
    /\ impl = "ts"
    /\ result' = IF IsGrid(bestGrid) /\ IsGrid(bestSolution)
                 THEN [returned |-> TRUE, success |-> "undefined", error |-> "",
                       puzzle |-> bestGrid, solution |-> bestSolution,
                       placedWords |-> bestPlaced, failedWords |-> bestFailed,
                       placedWordInfos |-> bestWordInfos]
                 ELSE [NoResult EXCEPT !.returned = TRUE,
                                       !.puzzle = createEmptyGrid(size),
                                       !.solution = createEmptyGrid(size),
                                       !.failedWords = words]
    /\ pc' = "done"
    /\ UNCHANGED << fnVars, uiVars, inputVars, attempt, attemptVars, bestVars, historyVars >>

Next ==
    \/ StartAttempt
    \/ PlaceNextWord
    \/ PlaceNextWordTs
    \/ FinishAttempt
    \/ ExitLoop
    \/ Return
    \/ ReturnTs

Spec == Init /\ [][Next]_vars

----------------------------------------------------------------------------
(* createPuzzle of script.js on the 5 x 5 grid: the word list CAT, DOG with *)
(* horizontal and vertical, and the word list of one 20-letter word under   *)
(* every configuration with an axis flag. The fill draws one letter.        *)

CAT == << "C", "A", "T" >>
DOG == << "D", "O", "G" >>
SUPERCALIFRAGILISTIC ==
    << "S", "U", "P", "E", "R", "C", "A", "L", "I", "F",
       "R", "A", "G", "I", "L", "I", "S", "T", "I", "C" >>

HasAxis(d) == d.horizontal \/ d.vertical \/ d.diagonal

ScenarioCalls ==
    { Call(<< CAT, DOG >>, 5, Dirs(TRUE, TRUE, FALSE, FALSE)) }
    \cup { Call(<< SUPERCALIFRAGILISTIC >>, 5, Dirs(h, v, d, r))
            : h, v, d, r \in BOOLEAN }

InitScenario ==
    /\ impl = "script"
    /\ \E c \in ScenarioCalls :
           /\ HasAxis(c.directions)
           /\ words = c.words
           /\ size = c.size
           /\ directions = c.directions
    /\ randomLetters = { "Z" }
    /\ pc = "loop"
    /\ attempt = 0
    /\ grid = NoGrid
    /\ solution = NoGrid
    /\ wordsByLength = << >>
    /\ wi = 1
    /\ tries = 0
    /\ placedWords = << >>
    /\ failedWords = << >>
    /\ placedWordInfos = << >>
    /\ bestGrid = NoGrid
    /\ bestSolution = NoGrid
    /\ bestPlaced = << >>
    /\ bestFailed = words
    /\ bestScore = -1
    /\ bestWordInfos = << >>
    /\ result = NoResult
    /\ retains = 0
    /\ firstWith = [n \in 0 .. Len(words) |-> -1]
    /\ retainedAt = -1
    /\ call = NoCall
    /\ ret = << >>
    /\ PageLoaded

\* The steps of createPuzzle of script.js.
NextScript ==
    \/ StartAttempt
    \/ PlaceNextWord
    \/ FinishAttempt
    \/ ExitLoop
    \/ Return

SpecScenario == InitScenario /\ [][NextScript]_vars

----------------------------------------------------------------------------
(* createPuzzle of script.js on a call whose outer attempts place different *)
(* numbers of words and never all of them: on the 3 x 3 grid with the       *)
(* horizontal vector alone, ABCD never fits, ABC goes into one of the three *)
(* rows, and D is placed after it when ABC lies in the top or the bottom    *)
(* row (in the middle row every free cell has two filled neighbours, which  *)
(* scores below the initial bestScore). The fill draws one letter.          *)

ABCD == << "A", "B", "C", "D" >>

D == << "D" >>

RetainCall == Call(<< ABCD, D, ABC >>, 3, Dirs(TRUE, FALSE, FALSE, FALSE))

InitRetain ==
    /\ impl = "script"
    /\ words = RetainCall.words
    /\ size = RetainCall.size
    /\ directions = RetainCall.directions
    /\ randomLetters = { "Z" }
    /\ pc = "loop"
    /\ attempt = 0
    /\ grid = NoGrid
    /\ solution = NoGrid
    /\ wordsByLength = << >>
    /\ wi = 1
    /\ tries = 0
    /\ placedWords = << >>
    /\ failedWords = << >>
    /\ placedWordInfos = << >>
    /\ bestGrid = NoGrid
    /\ bestSolution = NoGrid
    /\ bestPlaced = << >>
    /\ bestFailed = words
    /\ bestScore = -1
    /\ bestWordInfos = << >>
    /\ result = NoResult
    /\ retains = 0
    /\ firstWith = [n \in 0 .. Len(words) |-> -1]
    /\ retainedAt = -1
    /\ call = NoCall
    /\ ret = << >>
    /\ PageLoaded

SpecRetain == InitRetain /\ [][NextScript]_vars

----------------------------------------------------------------------------
(* createPuzzle of script.js with the inner loop of createWordSearch taken *)
(* one call of placeWordSmart at a time. The fill draws one letter.        *)

\* The calls of the runs to the end: a word that is placed and one that is
\* not placed after it, in each of the ten outer attempts; a word that is
\* placed in the first outer attempt, in one of two rows.
TerminationCalls ==
    { Call(<< A, B >>, 1, Dirs(TRUE, FALSE, FALSE, FALSE)),
      Call(<< AB >>, 2, Dirs(TRUE, FALSE, FALSE, FALSE)) }

\* With them, a call whose second word has a legal candidate that
\* placeWordSmart does not commit, and a call whose second word has such
\* candidates and one that placeWordSmart commits.
InnerCalls ==
    TerminationCalls
    \cup { Call(<< AB, CD >>, 2, Dirs(TRUE, FALSE, FALSE, FALSE)),
           Call(<< AB, BA >>, 2, Dirs(TRUE, FALSE, FALSE, TRUE)) }

InitInnerOf(calls) ==
    /\ impl = "script"
    /\ \E c \in calls :
           /\ words = c.words
           /\ size = c.size
           /\ directions = c.directions
    /\ randomLetters = { "Z" }
    /\ pc = "loop"
    /\ attempt = 0
    /\ grid = NoGrid
    /\ solution = NoGrid
    /\ wordsByLength = << >>
    /\ wi = 1
    /\ tries = 0
    /\ placedWords = << >>
    /\ failedWords = << >>
    /\ placedWordInfos = << >>
    /\ bestGrid = NoGrid
    /\ bestSolution = NoGrid
    /\ bestPlaced = << >>
    /\ bestFailed = words
    /\ bestScore = -1
    /\ bestWordInfos = << >>
    /\ result = NoResult
    /\ retains = 0
    /\ firstWith = [n \in 0 .. Len(words) |-> -1]
    /\ retainedAt = -1
    /\ call = NoCall
    /\ ret = << >>
    /\ PageLoaded

\* Faulty variant of the inner loop's test: the loop has no cap.
attemptsLeftUncapped(n) == TRUE

\* attempt < attemptsPerWord
attemptsLeft(n) == n < attemptsPerWord

\* One round of for (let attempt = 0; attempt < attemptsPerWord; attempt++):
\* the call of placeWordSmart; with an info the word is recorded and the loop
\* left, with null the counter goes up.
TryPlaceWord ==
    /\ pc = "words"
    /\ impl = "script"
    /\ wi <= Len(wordsByLength)
    /\ attemptsLeft(tries)
    /\ \E o \in placeWordSmart(grid, solution, wordsByLength[wi],
                               getDirectionVectors(directions)) :
           IF o.info # << >>
           THEN RecordWord(wordsByLength[wi], o)
           ELSE /\ tries' = tries + 1
                /\ grid' = o.grid
                /\ solution' = o.solution
                /\ UNCHANGED << fnVars, uiVars, inputVars, pc, attempt, wordsByLength, wi,
                                placedWords, failedWords, placedWordInfos,
                                bestVars, result, historyVars >>

\* The inner loop's test fails: the word goes to failedWords.
GiveUpWord ==
    /\ pc = "words"
    /\ impl = "script"
    /\ wi <= Len(wordsByLength)
    /\ ~attemptsLeft(tries)
    /\ RecordWord(wordsByLength[wi], Miss(grid, solution))

NextInner ==
    \/ StartAttempt
    \/ TryPlaceWord
    \/ GiveUpWord
    \/ FinishAttempt
    \/ ExitLoop
    \/ Return

InitInner == InitInnerOf(InnerCalls)

SpecInner == InitInner /\ [][NextInner]_vars

InitTermination == InitInnerOf(TerminationCalls)

\* createPuzzle is synchronous code: a step that can be taken is taken.
SpecTermination ==
    InitTermination /\ [][NextInner]_vars /\ WF_vars(NextInner)

----------------------------------------------------------------------------
(* The helper functions called on their own: one action per function, its  *)
(* arguments drawn from the sets below; call and ret hold the one call     *)
(* made and what it returned. No puzzle is being generated meanwhile.      *)

\* The elements of a sequence.
Elements(s) == { s[k] : k \in 1 .. Len(s) }

\* Every DirectionOptions value: the four checkboxes.
DirectionOptions ==
    [horizontal : BOOLEAN, vertical : BOOLEAN, diagonal : BOOLEAN,
     reverse : BOOLEAN]

NoPuzzle ==
    /\ impl = "script"
    /\ words = << >>
    /\ size = 0
    /\ directions = Dirs(FALSE, FALSE, FALSE, FALSE)
    /\ randomLetters = letters
    /\ pc = "idle"
    /\ attempt = 0
    /\ grid = NoGrid
    /\ solution = NoGrid
    /\ wordsByLength = << >>
    /\ wi = 1
    /\ tries = 0
    /\ placedWords = << >>
    /\ failedWords = << >>
    /\ placedWordInfos = << >>
    /\ bestGrid = NoGrid
    /\ bestSolution = NoGrid
    /\ bestPlaced = << >>
    /\ bestFailed = << >>
    /\ bestScore = -1
    /\ bestWordInfos = << >>
    /\ result = NoResult
    /\ retains = 0
    /\ firstWith = [n \in 0 .. Len(words) |-> -1]
    /\ retainedAt = -1

InitFn ==
    /\ NoPuzzle
    /\ call = NoCall
    /\ ret = << >>
    /\ PageLoaded

\* getDirectionVectors(directions) of script.js.
CallGetDirectionVectors ==
    /\ call = NoCall
    /\ \E d \in DirectionOptions :
           /\ call' = [fn |-> "getDirectionVectors", args |-> d]
           /\ ret' = getDirectionVectors(d)
    /\ UNCHANGED << puzzleVars, uiVars >>

\* getDirectionVectors(directions) of gridUtils.ts.
CallGetDirectionVectorsTs ==
    /\ call = NoCall
    /\ \E d \in DirectionOptions :
           /\ call' = [fn |-> "gridUtils.getDirectionVectors", args |-> d]
           /\ ret' = getDirectionVectorsTs(d)
    /\ UNCHANGED << puzzleVars, uiVars >>

\* The modular engine (PuzzleEngine): directions is the list of the names of
\* the checked boxes, in the order getSelectedDirections pushes them.
DirectionNames == << "horizontal", "vertical", "diagonal", "reverse" >>

SelectedDirections ==
    { SelectSeq(DirectionNames, LAMBDA n : n \in chosen)
      : chosen \in SUBSET Elements(DirectionNames) }

\* const directionMap = {horizontal: [0, 1], vertical: [1, 0], ...}
directionMap ==
    [horizontal |-> << 0, 1 >>, vertical |-> << 1, 0 >>,
     diagonal |-> << 1, 1 >>, reverse |-> << -1, -1 >>]

\* PuzzleEngine.getDirectionVectors: the mapped vector of every name of the
\* list that directionMap knows, in the list's order.
EngineGetDirectionVectors(ds) ==
    LET known == SelectSeq(ds, LAMBDA n : n \in DOMAIN directionMap)
    IN  [k \in 1 .. Len(known) |-> directionMap[known[k]]]

\* if (directionVectors.length === 0) return {success: false, error: "No
\* valid directions selected"} at the head of PuzzleEngine.createWordSearch.
noValidDirections(directionVectors) == Len(directionVectors) = 0

CallEngineGetDirectionVectors ==
    /\ call = NoCall
    /\ \E ds \in SelectedDirections :
           /\ call' = [fn |-> "PuzzleEngine.getDirectionVectors", args |-> ds]
           /\ ret' = EngineGetDirectionVectors(ds)
    /\ UNCHANGED << puzzleVars, uiVars >>

----------------------------------------------------------------------------
(* The modular engine: PuzzleEngine.createPuzzle / createWordSearch /       *)
(* placeWordSmart. directions holds the list of the selected names, and     *)
(* wordsByLength the attempt's shuffledWords.                               *)

\* this.maxAttempts = 1000
maxAttempts == 1000

\* One round of the loop of PuzzleEngine.canPlaceWord, run after the test of
\* the end cell has passed: grid[row] is undefined for a row outside the grid,
\* and reading [col] of it throws; grid[row][col] is undefined for a column
\* outside the row, which is neither "" nor a letter.
EngineRound(g, word, startRow, startCol, direction, i) ==
    LET rc == CellAt(startRow, startCol, direction, i)
    IN  IF rc[1] \notin DOMAIN g THEN "throw"
        ELSE IF rc[2] \notin DOMAIN g[rc[1]] THEN "false"
        ELSE IF g[rc[1]][rc[2]] # "" /\ g[rc[1]][rc[2]] # word[i + 1] THEN "false"
        ELSE "pass"

\* Faulty variant of EngineCanPlaceWord: the test of the end cell is left out.
EngineCanPlaceWordNoEndTest(g, word, startRow, startCol, direction) ==
    LET rounds == { i \in 0 .. Len(word) - 1 :
                      \A j \in 0 .. i - 1 :
                          EngineRound(g, word, startRow, startCol, direction, j)
                              = "pass" }
        out(i) == EngineRound(g, word, startRow, startCol, direction, i)
    IN  [threw |-> \E i \in rounds : out(i) = "throw",
         value |-> \A i \in rounds : out(i) = "pass",
         reads |-> { CellAt(startRow, startCol, direction, i)
                       : i \in { k \in rounds : out(k) # "throw" } }]

\* PuzzleEngine.canPlaceWord: whether the call throws, its value, and the
\* cells (row, col) it reads with grid[row][col].
EngineCanPlaceWord(g, word, startRow, startCol, direction) ==
    LET sz     == GridSize(g)
        endRow == startRow + (Len(word) - 1) * direction[1]
        endCol == startCol + (Len(word) - 1) * direction[2]
        rounds == { i \in 0 .. Len(word) - 1 :
                      \A j \in 0 .. i - 1 :
                          EngineRound(g, word, startRow, startCol, direction, j)
                              = "pass" }
        out(i) == EngineRound(g, word, startRow, startCol, direction, i)
    IN  IF endRow < 0 \/ endRow >= sz \/ endCol < 0 \/ endCol >= sz
        THEN [threw |-> FALSE, value |-> FALSE, reads |-> {}]
        ELSE [threw |-> \E i \in rounds : out(i) = "throw",
              value |-> \A i \in rounds : out(i) = "pass",
              reads |-> { CellAt(startRow, startCol, direction, i)
                            : i \in { k \in rounds : out(k) # "throw" } }]

\* PuzzleEngine.calculateSpacingScore, for a candidate canPlaceWord accepts.
EngineCalculateSpacingScore(g, word, startRow, startCol, direction) ==
    LET cell(i)  == LET rc == CellAt(startRow, startCol, direction, i)
                    IN  g[rc[1]][rc[2]]
        overlaps == Cardinality({ i \in 0 .. Len(word) - 1 : cell(i) = word[i + 1] })
        empties  == Cardinality({ i \in 0 .. Len(word) - 1 :
                                    cell(i) # word[i + 1] /\ cell(i) = "" })
    IN  overlaps * 10 + empties + overlaps * 5

\* The candidates in the order of the three nested for loops: row, col,
\* direction.
EngineScanOrder(dvs, sz) ==
    [k \in 1 .. sz * sz * Len(dvs) |->
        LET p == (k - 1) \div Len(dvs)
            d == dvs[((k - 1) % Len(dvs)) + 1]
        IN  << p \div sz, p % sz, d[1], d[2] >>]

\* PuzzleEngine.placeWordSmart: bestPlacements holds the accepted candidates
\* in the order of the scan; the sort is stable, so bestPlacements[0] is the
\* first candidate of the scan with the highest score.
EnginePlaceWordSmart(g, sol, word, dvs) ==
    LET cands    == EngineScanOrder(dvs, GridSize(g))
        accepted == { k \in 1 .. Len(cands) :
                        EngineCanPlaceWord(g, word, cands[k][1], cands[k][2],
                                           << cands[k][3], cands[k][4] >>).value }
        score(k) == EngineCalculateSpacingScore(g, word, cands[k][1], cands[k][2],
                                                << cands[k][3], cands[k][4] >>)
    IN  IF accepted = {}
        THEN [success |-> FALSE, info |-> << >>, grid |-> g, solution |-> sol]
        ELSE LET best == CHOOSE k \in accepted :
                             \A j \in accepted :
                                 \/ score(j) < score(k)
                                 \/ (score(j) = score(k) /\ k <= j)
                 both == placeWordAt(g, sol, word, cands[best][1], cands[best][2],
                                     << cands[best][3], cands[best][4] >>)
             IN  [success |-> TRUE, info |-> << PlacedInfo(word, cands[best]) >>,
                  grid |-> both[1], solution |-> both[2]]

EngineCall(ws, sz, names) == [words |-> ws, size |-> sz, directions |-> names]

\* The calls: no name selected; two words that are placed in the first
\* attempt; two words of which the second one never fits; three words that
\* are all placed in two of their orders and not in the third.
EngineCalls ==
    { EngineCall(<< AB >>, 2, << >>),
      EngineCall(<< AB, BA >>, 2, << "horizontal" >>),
      EngineCall(<< A, B >>, 1, << "horizontal" >>),
      EngineCall(<< AB, AC, CD >>, 2, << "horizontal", "vertical" >>) }

InitEngine ==
    /\ impl = "engine"
    /\ \E c \in EngineCalls :
           /\ words = c.words
           /\ size = c.size
           /\ directions = c.directions
    /\ randomLetters = { "Z" }
    /\ pc = "enter"
    /\ attempt = 0
    /\ grid = NoGrid
    /\ solution = NoGrid
    /\ wordsByLength = << >>
    /\ wi = 1
    /\ tries = 0
    /\ placedWords = << >>
    /\ failedWords = << >>
    /\ placedWordInfos = << >>
    /\ bestGrid = NoGrid
    /\ bestSolution = NoGrid
    /\ bestPlaced = << >>
    /\ bestFailed = << >>
    /\ bestScore = -1
    /\ bestWordInfos = << >>
    /\ result = NoResult
    /\ retains = 0
    /\ firstWith = [n \in 0 .. Len(words) |-> -1]
    /\ retainedAt = -1
    /\ call = NoCall
    /\ ret = << >>
    /\ PageLoaded

\* What createPuzzle returns for a failure of createWordSearch.
EngineFailure(error) ==
    [NoResult EXCEPT !.returned = TRUE, !.success = "false", !.error = error]

\* const directionVectors = this.getDirectionVectors(directions) and the test
\* of its length.
EngineEnter ==
    /\ pc = "enter"
    /\ IF noValidDirections(EngineGetDirectionVectors(directions))
       THEN /\ result' = EngineFailure("No valid directions selected")
            /\ pc' = "done"
       ELSE /\ pc' = "loop"
            /\ UNCHANGED result
    /\ UNCHANGED << fnVars, uiVars, inputVars, attempt, attemptVars, bestVars, historyVars >>

\* The loop test passes: the two empty grids and the shuffled copy of words.
EngineStartAttempt ==
    /\ pc = "loop"
    /\ attempt < maxAttempts
    /\ grid' = createEmptyGrid(size)
    /\ solution' = createEmptyGrid(size)
    /\ placedWordInfos' = << >>
    /\ wordsByLength' \in shuffleArray(words)
    /\ wi' = 1
    /\ pc' = "words"
    /\ UNCHANGED << fnVars, uiVars, inputVars, attempt, tries, placedWords, failedWords,
                    bestVars, result, historyVars >>

\* One round of for (const word of shuffledWords): the word is placed, or
\* allWordsPlaced is set to false and the loop left with words untried.
EnginePlaceNextWord ==
    /\ pc = "words"
    /\ impl = "engine"
    /\ wi <= Len(wordsByLength)
    /\ LET placementResult ==
               EnginePlaceWordSmart(grid, solution, wordsByLength[wi],
                                    EngineGetDirectionVectors(directions))
       IN  IF placementResult.success
           THEN /\ grid' = placementResult.grid
                /\ solution' = placementResult.solution
                /\ placedWordInfos' = Append(placedWordInfos, placementResult.info[1])
                /\ wi' = wi + 1
                /\ pc' = "words"
           ELSE /\ pc' = "attempted"
                /\ UNCHANGED << grid, solution, placedWordInfos, wi >>
    /\ UNCHANGED << fnVars, uiVars, inputVars, attempt, wordsByLength, tries, placedWords,
                    failedWords, bestVars, result, historyVars >>

\* The loop over the words has run through.
EngineWordsDone ==
    /\ pc = "words"
    /\ impl = "engine"
    /\ wi > Len(wordsByLength)
    /\ pc' = "attempted"
    /\ UNCHANGED << fnVars, uiVars, inputVars, attempt, attemptVars, bestVars, result,
                    historyVars >>

\* Faulty variant of allWordsPlaced: the flag is never set to false.
allWordsPlacedAlways(index, shuffledWords) == TRUE

\* allWordsPlaced after the loop over the words: the loop was left with
\* break exactly when a word was left untried.
allWordsPlaced(index, shuffledWords) == index > Len(shuffledWords)

\* if (allWordsPlaced) { fill; return success } else the next round.
EngineEndAttempt ==
    /\ pc = "attempted"
    /\ IF allWordsPlaced(wi, wordsByLength)
       THEN /\ \E filled \in fillRemainingCells(grid) :
                   result' = [NoResult EXCEPT !.returned = TRUE,
                                              !.success = "true",
                                              !.puzzle = filled,
                                              !.solution = solution,
                                              !.placedWordInfos = placedWordInfos]
            /\ pc' = "done"
            /\ UNCHANGED << attempt, attemptVars >>
       ELSE /\ attempt' = attempt + 1
            /\ pc' = "loop"
            /\ grid' = NoGrid
            /\ solution' = NoGrid
            /\ wordsByLength' = << >>
            /\ wi' = 1
            /\ placedWordInfos' = << >>
            /\ UNCHANGED << result, tries, placedWords, failedWords >>
    /\ UNCHANGED << fnVars, uiVars, inputVars, bestVars, historyVars >>

\* The loop test fails after maxAttempts rounds.
EngineExitLoop ==
    /\ pc = "loop"
    /\ ~(attempt < maxAttempts)
    /\ result' = EngineFailure("Could not place all words after 1000 attempts")
    /\ pc' = "done"
    /\ UNCHANGED << fnVars, uiVars, inputVars, attempt, attemptVars, bestVars, historyVars >>

NextEngine ==
    \/ EngineEnter
    \/ EngineStartAttempt
    \/ EnginePlaceNextWord
    \/ EngineWordsDone
    \/ EngineEndAttempt
    \/ EngineExitLoop

SpecEngine == InitEngine /\ [][NextEngine]_vars

----------------------------------------------------------------------------
(* The page of script.js: the click and change handlers and the delayed     *)
(* calls of renderCapsuleOverlay. Every handler runs to its end before the  *)
(* next one or a timer callback starts.                                     *)

\* The most callbacks pending at a time.
MaxTimers == 5

\* updateSolutionDisplay, with the state of the outline checkbox: renderGrid
\* empties the container, which removes an overlay, and builds the table.
UpdateSolutionDisplay(checked) ==
    IF hasPuzzle
    THEN /\ overlay' = FALSE
         /\ timers' = IF ~solutionHidden /\ checked THEN timers + 1 ELSE timers
    ELSE UNCHANGED << overlay, timers >>

\* A click on generateBtn whose createPuzzle call succeeds: displayPuzzle
\* renders both grids and hides the solution grid.
ClickGenerate ==
    /\ hasPuzzle' = TRUE
    /\ overlay' = FALSE
    /\ solutionHidden' = TRUE
    /\ UNCHANGED << puzzleVars, fnVars, outlineChecked, colorChecked, timers >>

\* toggleSolution
ClickToggleSolution ==
    /\ timers < MaxTimers
    /\ IF solutionHidden
       THEN /\ solutionHidden' = FALSE
            /\ timers' = IF outlineChecked THEN timers + 1 ELSE timers
       ELSE /\ solutionHidden' = TRUE
            /\ UNCHANGED timers
    /\ UNCHANGED << puzzleVars, fnVars, outlineChecked, colorChecked, hasPuzzle, overlay >>

\* The change event of outlineFoundWordsCheckbox.
ChangeOutlineFoundWords ==
    /\ timers < MaxTimers
    /\ outlineChecked' = ~outlineChecked
    /\ UpdateSolutionDisplay(outlineChecked')
    /\ UNCHANGED << puzzleVars, fnVars, solutionHidden, colorChecked, hasPuzzle >>

\* The change event of colorFoundWordsCheckbox.
ChangeColorFoundWords ==
    /\ timers < MaxTimers
    /\ colorChecked' = ~colorChecked
    /\ UpdateSolutionDisplay(outlineChecked)
    /\ UNCHANGED << puzzleVars, fnVars, solutionHidden, outlineChecked, hasPuzzle >>

\* A pending callback fires: renderCapsuleOverlay removes the old overlay,
\* returns if solutionGrid holds no table, and otherwise appends a new svg.
TimerRenderCapsuleOverlay ==
    /\ timers > 0
    /\ timers' = timers - 1
    /\ overlay' = hasPuzzle
    /\ UNCHANGED << puzzleVars, fnVars, solutionHidden, outlineChecked, colorChecked,
                    hasPuzzle >>

NextPage ==
    \/ ClickGenerate
    \/ ClickToggleSolution
    \/ ChangeOutlineFoundWords
    \/ ChangeColorFoundWords
    \/ TimerRenderCapsuleOverlay

SpecPage == InitFn /\ [][NextPage]_vars

----------------------------------------------------------------------------
(* The capsule geometry of the three renderers. Pixel lengths are counted  *)
(* in twentieths of a pixel, so that cellSize / 2, cellSize * 0.4 and      *)
(* cellSize * 0.7 of an integer cell size are integers: a cell size of c   *)
(* pixels is 20 * c here.                                                  *)

\* The PlacedWordInfo and cell sizes the renderers are called with.
MaxWordLength == 4

MaxCellSize == 2

UnitVectors == ({ -1, 0, 1 } \X { -1, 0, 1 }) \ { << 0, 0 >> }

CapsuleInfos ==
    { PlacedInfo(SubSeq(SUPERCALIFRAGILISTIC, 1, n), << r, c, v[1], v[2] >>)
      : r \in 0 .. MaxSize - 1, c \in 0 .. MaxSize - 1,
        v \in UnitVectors, n \in 1 .. MaxWordLength }

CellSizes == { 20 * c : c \in 1 .. MaxCellSize }

\* index * cellSize + cellSize / 2
cellCentre(index, cellSize) == index * cellSize + cellSize \div 2

\* (Math.atan2(dy, dx) * 180) / Math.PI, for dx, dy along an axis or a
\* diagonal (square cells and the eight unit vectors give no other).
atan2Degrees(dy, dx) ==
    CASE dy = 0 /\ dx >= 0 -> 0
      [] dy = 0 /\ dx < 0 -> 180
      [] dx = 0 /\ dy > 0 -> 90
      [] dx = 0 /\ dy < 0 -> -90
      [] dx = dy /\ dx > 0 -> 45
      [] dx = dy /\ dx < 0 -> -135
      [] dx = -dy /\ dx < 0 -> 135
      [] dx = -dy /\ dx > 0 -> -45

\* Math.sqrt(dx * dx + dy * dy) + extension * 2, kept as the number under the
\* root and the number added to the root.
lengthOf(dx, dy, extension) ==
    [radicand |-> dx * dx + dy * dy, added |-> extension * 2]

\* Faulty variant of getCapsuleOverlay: the end cell is one cell too far.
getCapsuleOverlayEndPastWord(info, cellSize) ==
    LET endRow == info.startRow + info.length * info.dRow
        endCol == info.startCol + info.length * info.dCol
        startX == cellCentre(info.startCol, cellSize)
        startY == cellCentre(info.startRow, cellSize)
        endX   == cellCentre(endCol, cellSize)
        endY   == cellCentre(endRow, cellSize)
    IN  [startRow |-> info.startRow, startCol |-> info.startCol,
         endRow |-> endRow, endCol |-> endCol,
         cx |-> (startX + endX) \div 2, cy |-> (startY + endY) \div 2,
         angle |-> atan2Degrees(endY - startY, endX - startX),
         capsuleLength |-> lengthOf(endX - startX, endY - startY,
                                    (cellSize * 7) \div 10),
         capsuleWidth |-> (cellSize * 7) \div 10]

\* The body of the map of getCapsuleOverlays (solutionOverlay.ts).
getCapsuleOverlay(info, cellSize) ==
    LET endRow    == info.startRow + (info.length - 1) * info.dRow
        endCol    == info.startCol + (info.length - 1) * info.dCol
        startX    == cellCentre(info.startCol, cellSize)
        startY    == cellCentre(info.startRow, cellSize)
        endX      == cellCentre(endCol, cellSize)
        endY      == cellCentre(endRow, cellSize)
        dx        == endX - startX
        dy        == endY - startY
        extension == (cellSize * 7) \div 10
    IN  [startRow |-> info.startRow, startCol |-> info.startCol,
         endRow |-> endRow, endCol |-> endCol,
         cx |-> (startX + endX) \div 2, cy |-> (startY + endY) \div 2,
         angle |-> atan2Degrees(dy, dx),
         capsuleLength |-> lengthOf(dx, dy, extension),
         capsuleWidth |-> (cellSize * 7) \div 10]

getCapsuleOverlays(infos, cellSize) ==
    [k \in 1 .. Len(infos) |-> getCapsuleOverlay(infos[k], cellSize)]

\* CapsuleRenderer.getCapsuleDimensions.
getCapsuleDimensions(startX, startY, endX, endY, cellHeight) ==
    LET extension    == (cellHeight * 4) \div 10
        dx           == endX - startX
        dy           == endY - startY
        capsuleWidth == (cellHeight * 7) \div 10
    IN  [length |-> lengthOf(dx, dy, extension), width |-> capsuleWidth,
         radius |-> capsuleWidth \div 2, angle |-> atan2Degrees(dy, dx),
         centerX |-> (startX + endX) \div 2, centerY |-> (startY + endY) \div 2]

\* One round of for (const info of placedWordInfos) in
\* CapsuleRenderer.renderAllCapsulesWithViewBox: the capsule it draws.
renderAllCapsulesWithViewBox(info, actualCellWidth, actualCellHeight) ==
    LET endRow       == info.startRow + (info.length - 1) * info.dRow
        endCol       == info.startCol + (info.length - 1) * info.dCol
        startX       == cellCentre(info.startCol, actualCellWidth)
        startY       == cellCentre(info.startRow, actualCellHeight)
        endX         == cellCentre(endCol, actualCellWidth)
        endY         == cellCentre(endRow, actualCellHeight)
        extension    == (actualCellHeight * 4) \div 10
        dx           == endX - startX
        dy           == endY - startY
        capsuleWidth == (actualCellHeight * 7) \div 10
    IN  [capsuleLength |-> lengthOf(dx, dy, extension),
         capsuleWidth |-> capsuleWidth, radius |-> capsuleWidth \div 2,
         angle |-> atan2Degrees(dy, dx),
         centerX |-> (startX + endX) \div 2, centerY |-> (startY + endY) \div 2]

\* Math.max
Max(a, b) == IF a >= b THEN a ELSE b

\* One round of for (const info of this.placedWordInfos) in
\* renderCapsuleOverlay (script.js): the capsule it draws, in the coordinates
\* of the svg element, and where the svg element's corner lies from the
\* table's corner (svg.style.left is padLeft - svgPadding).
renderCapsuleOverlay(info, cellSize) ==
    LET extension    == (cellSize * 4) \div 10
        capsuleWidth == (cellSize * 7) \div 10
        maxExtension == Max(extension, capsuleWidth \div 2)
        svgPadding   == maxExtension + 10 * 20
        endRow       == info.startRow + (info.length - 1) * info.dRow
        endCol       == info.startCol + (info.length - 1) * info.dCol
        startX       == cellCentre(info.startCol, cellSize) + svgPadding
        startY       == cellCentre(info.startRow, cellSize) + svgPadding
        endX         == cellCentre(endCol, cellSize) + svgPadding
        endY         == cellCentre(endRow, cellSize) + svgPadding
        dx           == endX - startX
        dy           == endY - startY
    IN  [capsuleLength |-> lengthOf(dx, dy, extension),
         capsuleWidth |-> capsuleWidth, angle |-> atan2Degrees(dy, dx),
         cx |-> (startX + endX) \div 2, cy |-> (startY + endY) \div 2,
         svgLeft |-> 0 - svgPadding, svgTop |-> 0 - svgPadding]

CallGetCapsuleOverlays ==
    /\ call = NoCall
    /\ \E info \in CapsuleInfos, cellSize \in CellSizes :
           /\ call' = [fn |-> "getCapsuleOverlays",
                       args |-> [info |-> info, cellSize |-> cellSize]]
           /\ ret' = getCapsuleOverlays(<< info >>, cellSize)[1]
    /\ UNCHANGED << puzzleVars, uiVars >>

\* getCapsuleDimensions called with the pixel centres of the word's first and
\* last cells.
CallGetCapsuleDimensions ==
    /\ call = NoCall
    /\ \E info \in CapsuleInfos, cellSize \in CellSizes :
           LET endRow == info.startRow + (info.length - 1) * info.dRow
               endCol == info.startCol + (info.length - 1) * info.dCol
           IN  /\ call' = [fn |-> "getCapsuleDimensions",
                           args |-> [info |-> info, cellSize |-> cellSize]]
               /\ ret' = getCapsuleDimensions(
                              cellCentre(info.startCol, cellSize),
                              cellCentre(info.startRow, cellSize),
                              cellCentre(endCol, cellSize),
                              cellCentre(endRow, cellSize), cellSize)
    /\ UNCHANGED << puzzleVars, uiVars >>

CallRenderAllCapsulesWithViewBox ==
    /\ call = NoCall
    /\ \E info \in CapsuleInfos, cellSize \in CellSizes :
           /\ call' = [fn |-> "renderAllCapsulesWithViewBox",
                       args |-> [info |-> info, cellSize |-> cellSize]]
           /\ ret' = renderAllCapsulesWithViewBox(info, cellSize, cellSize)
    /\ UNCHANGED << puzzleVars, uiVars >>

CallRenderCapsuleOverlay ==
    /\ call = NoCall
    /\ \E info \in CapsuleInfos, cellSize \in CellSizes :
           /\ call' = [fn |-> "renderCapsuleOverlay",
                       args |-> [info |-> info, cellSize |-> cellSize]]
           /\ ret' = renderCapsuleOverlay(info, cellSize)
    /\ UNCHANGED << puzzleVars, uiVars >>

----------------------------------------------------------------------------
(* GridUtils.isWithinBounds, getCell and setCell. A call either throws or  *)
(* returns a value; grid[0].length throws when the grid has no row 0.      *)

\* The square grids the functions are called on, the 0 x 0 grid among them.
SquareGrids ==
    UNION { [0 .. n - 1 -> [0 .. n - 1 -> { "", "A" }]] : n \in 0 .. MaxSize }

\* The row and column numbers of the calls: below, inside and past the rows.
Indices == -1 .. MaxSize

\* null
Null == "null"

Threw == [threw |-> TRUE, value |-> Null]

Returns(v) == [threw |-> FALSE, value |-> v]

\* Faulty variant of isWithinBounds: the column tests come before the row
\* tests.
isWithinBoundsColumnsFirst(g, row, col) ==
    IF ~(col >= 0) THEN Returns(FALSE)
    ELSE IF 0 \notin DOMAIN g THEN Threw
    ELSE IF ~(col < Cardinality(DOMAIN g[0])) THEN Returns(FALSE)
    ELSE IF ~(row >= 0) THEN Returns(FALSE)
    ELSE Returns(row < Cardinality(DOMAIN g))

\* return row >= 0 && row < grid.length && col >= 0 && col < grid[0].length:
\* && evaluates its right side only when its left side is true.
isWithinBounds(g, row, col) ==
    IF ~(row >= 0) THEN Returns(FALSE)
    ELSE IF ~(row < Cardinality(DOMAIN g)) THEN Returns(FALSE)
    ELSE IF ~(col >= 0) THEN Returns(FALSE)
    ELSE IF 0 \notin DOMAIN g THEN Threw
    ELSE Returns(col < Cardinality(DOMAIN g[0]))

\* GridUtils.getCell: what the call returns and the grid after it.
getCell(g, row, col) ==
    LET within == isWithinBounds(g, row, col)
    IN  IF within.threw THEN [threw |-> TRUE, value |-> Null, grid |-> g]
        ELSE IF within.value
             THEN [threw |-> FALSE, value |-> g[row][col], grid |-> g]
             ELSE [threw |-> FALSE, value |-> Null, grid |-> g]

\* GridUtils.setCell: what the call returns and the grid after it.
setCell(g, row, col, value) ==
    LET within == isWithinBounds(g, row, col)
    IN  IF within.threw THEN [threw |-> TRUE, value |-> FALSE, grid |-> g]
        ELSE IF within.value
             THEN [threw |-> FALSE, value |-> TRUE,
                   grid |-> [g EXCEPT ![row][col] = value]]
             ELSE [threw |-> FALSE, value |-> FALSE, grid |-> g]

CallGetCell ==
    /\ call = NoCall
    /\ \E g \in SquareGrids, row \in Indices, col \in Indices :
           /\ call' = [fn |-> "GridUtils.getCell",
                       args |-> [grid |-> g, row |-> row, col |-> col]]
           /\ ret' = getCell(g, row, col)
    /\ UNCHANGED << puzzleVars, uiVars >>

CallSetCell ==
    /\ call = NoCall
    /\ \E g \in SquareGrids, row \in Indices, col \in Indices :
           /\ call' = [fn |-> "GridUtils.setCell",
                       args |-> [grid |-> g, row |-> row, col |-> col,
                                 value |-> "B"]]
           /\ ret' = setCell(g, row, col, "B")
    /\ UNCHANGED << puzzleVars, uiVars >>

----------------------------------------------------------------------------
(* canPlaceWord called on its own.                                         *)

\* The words of the calls: over the letter the grids hold and another one.
PlacementWords == { AB, BA, ABC }

PlacementArgs ==
    [grid : SquareGrids, word : PlacementWords, startRow : Indices,
     startCol : Indices, dRow : { -1, 0, 1 }, dCol : { -1, 0, 1 }]

\* canPlaceWord(grid, word, startRow, startCol, direction) of script.js: its
\* value, the cells it has read and the grid after the call.
CallCanPlaceWord ==
    /\ call = NoCall
    /\ \E a \in PlacementArgs :
           /\ << a.dRow, a.dCol >> \in UnitVectors
           /\ call' = [fn |-> "canPlaceWord", args |-> a]
           /\ ret' = [value |-> canPlaceWord(a.grid, a.word, a.startRow,
                                             a.startCol, << a.dRow, a.dCol >>),
                      reads |-> canPlaceWordReads(a.grid, a.word, a.startRow,
                                                  a.startCol, << a.dRow, a.dCol >>),
                      grid |-> a.grid]
    /\ UNCHANGED << puzzleVars, uiVars >>

\* canPlaceWord(grid, word, startRow, startCol, direction) of PuzzleEngine:
\* whether it threw, its value and the cells it has read.
CallEngineCanPlaceWord ==
    /\ call = NoCall
    /\ \E a \in PlacementArgs :
           /\ << a.dRow, a.dCol >> \in UnitVectors
           /\ call' = [fn |-> "PuzzleEngine.canPlaceWord", args |-> a]
           /\ ret' = EngineCanPlaceWord(a.grid, a.word, a.startRow, a.startCol,
                                        << a.dRow, a.dCol >>)
    /\ UNCHANGED << puzzleVars, uiVars >>

\* canPlaceWord(grid, word, startRow, startCol, dRow, dCol) of wordPlacer.ts.
CallCanPlaceWordTs ==
    /\ call = NoCall
    /\ \E a \in PlacementArgs :
           /\ << a.dRow, a.dCol >> \in UnitVectors
           /\ call' = [fn |-> "wordPlacer.canPlaceWord", args |-> a]
           /\ ret' = [value |-> canPlaceWordTs(a.grid, a.word, a.startRow,
                                               a.startCol, a.dRow, a.dCol),
                      reads |-> canPlaceWordTsReads(a.grid, a.word, a.startRow,
                                                    a.startCol, a.dRow, a.dCol),
                      grid |-> a.grid]
    /\ UNCHANGED << puzzleVars, uiVars >>

\* calculateSpacingScore(grid, word, startRow, startCol, direction) of
\* script.js, called as placeWordSmart calls it: for a candidate that
\* canPlaceWord has accepted.
CallCalculateSpacingScore ==
    /\ call = NoCall
    /\ \E a \in PlacementArgs :
           /\ << a.dRow, a.dCol >> \in UnitVectors
           /\ canPlaceWord(a.grid, a.word, a.startRow, a.startCol,
                           << a.dRow, a.dCol >>)
           /\ call' = [fn |-> "calculateSpacingScore", args |-> a]
           /\ ret' = calculateSpacingScore(a.grid, a.word, a.startRow,
                                           a.startCol, << a.dRow, a.dCol >>)
    /\ UNCHANGED << puzzleVars, uiVars >>

\* The direction flags of the calls of placeWordSmart.
PlacementDirections ==
    { Dirs(TRUE, FALSE, FALSE, FALSE), Dirs(TRUE, TRUE, FALSE, FALSE) }

\* The grids of one more row and column that hold one letter.
OneLetterGrids ==
    { [createEmptyGrid(MaxSize + 1) EXCEPT ![rc[1]][rc[2]] = "A"]
      : rc \in (0 .. MaxSize) \X (0 .. MaxSize) }

\* placeWordSmart(grid, solution, word, directionVectors) of script.js on a
\* grid with a row: everything the call can return and leave behind, over
\* its random choices.
CallPlaceWordSmart ==
    /\ call = NoCall
    /\ \E g \in SquareGrids \cup OneLetterGrids, word \in PlacementWords,
          d \in PlacementDirections :
           /\ IsGrid(g)
           /\ call' = [fn |-> "placeWordSmart",
                       args |-> [grid |-> g, word |-> word, directions |-> d]]
           /\ ret' = placeWordSmart(g, g, word, getDirectionVectors(d))
    /\ UNCHANGED << puzzleVars, uiVars >>

NextPlacement ==
    \/ CallCanPlaceWord
    \/ CallEngineCanPlaceWord
    \/ CallCanPlaceWordTs
    \/ CallCalculateSpacingScore
    \/ CallPlaceWordSmart

SpecPlacement == InitFn /\ [][NextPlacement]_vars

NextFn ==
    \/ CallGetDirectionVectors
    \/ CallGetDirectionVectorsTs
    \/ CallEngineGetDirectionVectors
    \/ CallGetCapsuleOverlays
    \/ CallGetCapsuleDimensions
    \/ CallRenderAllCapsulesWithViewBox
    \/ CallRenderCapsuleOverlay
    \/ CallGetCell
    \/ CallSetCell

SpecFn == InitFn /\ [][NextFn]_vars


----------------------------------------------------------------------------
(* Properties.                                                             *)

Returned == pc = "done"

\* The cell of index i (from 0) of a PlacedWordInfo.
InfoCell(info, i) ==
    CellAt(info.startRow, info.startCol, << info.dRow, info.dCol >>, i)

InfoCells(info) == { InfoCell(info, i) : i \in 0 .. info.length - 1 }

Covered(infos) == UNION { InfoCells(infos[k]) : k \in 1 .. Len(infos) }

\* The info lies inside the grids and both hold its word along it.
LiesIn(info, display, sol) ==
    \A i \in 0 .. info.length - 1 :
        LET rc == InfoCell(info, i)
        IN  /\ InBounds(size, rc[1], rc[2])
            /\ display[rc[1]][rc[2]] = info.word[i + 1]
            /\ sol[rc[1]][rc[2]] = info.word[i + 1]

\* C1: in every returned result (createPuzzle and generatePuzzle), every
\* PlacedWordInfo's cells lie inside the N x N grid and hold the word's
\* letters in the returned puzzle grid and in the returned solution grid.
C1_PlacedWordsLieInBothGrids ==
    Returned =>
        \A k \in 1 .. Len(result.placedWordInfos) :
            /\ result.placedWordInfos[k].length = Len(result.placedWordInfos[k].word)
            /\ LiesIn(result.placedWordInfos[k], result.puzzle, result.solution)

C1_Witness ==
    /\ Returned
    /\ Len(result.placedWordInfos) >= 2
    /\ EmptyCells(result.solution) # {}

\* C2: in every result of createPuzzle, a cell on no PlacedWordInfo is empty
\* in the solution grid and holds a letter A-Z in the puzzle grid; the puzzle
\* grid has no empty cell.
C2_UncoveredCellsFilled ==
    (Returned /\ impl = "script" /\ result.success = "true") =>
        /\ \A rc \in (0 .. size - 1) \X (0 .. size - 1) :
               /\ result.puzzle[rc[1]][rc[2]] \in Alphabet
               /\ rc \notin Covered(result.placedWordInfos) =>
                      result.solution[rc[1]][rc[2]] = ""
        /\ DOMAIN result.puzzle = 0 .. size - 1
        /\ DOMAIN result.solution = 0 .. size - 1

C2_Witness ==
    /\ Returned
    /\ impl = "script"
    /\ result.success = "true"
    /\ Len(result.placedWordInfos) >= 1
    /\ \E rc \in (0 .. size - 1) \X (0 .. size - 1) :
           /\ rc \notin Covered(result.placedWordInfos)
           /\ result.puzzle[rc[1]][rc[2]] = "Z"

\* Two entries of infos that share a cell need the same letter there.
OverlapsAgree(infos) ==
    \A a, b \in 1 .. Len(infos) :
        \A i \in 0 .. infos[a].length - 1, j \in 0 .. infos[b].length - 1 :
            InfoCell(infos[a], i) = InfoCell(infos[b], j)
                => infos[a].word[i + 1] = infos[b].word[j + 1]

\* C3: in createPuzzle, two PlacedWordInfo entries that share a cell have the
\* same letter there, in the running attempt and in the result; a placed
\* word's letters are never overwritten by a later placement.
C3_OverlapsAgree ==
    impl = "script" =>
        /\ pc = "words" =>
               /\ OverlapsAgree(placedWordInfos)
               /\ \A k \in 1 .. Len(placedWordInfos) :
                      LiesIn(placedWordInfos[k], grid, solution)
        /\ Returned => OverlapsAgree(result.placedWordInfos)

C3_Witness ==
    /\ Returned
    /\ impl = "script"
    /\ \E a, b \in 1 .. Len(result.placedWordInfos) :
           /\ a # b
           /\ InfoCells(result.placedWordInfos[a])
                  \cap InfoCells(result.placedWordInfos[b]) # {}

\* Some (row, col, vector) passes canPlaceWord.
LegalPlacementExists(g, word, dvs) ==
    \E n \in 1 .. Len(dvs), row \in 0 .. GridSize(g) - 1, col \in 0 .. GridSize(g) - 1 :
        canPlaceWord(g, word, row, col, dvs[n])

\* C4: placeWordSmart, called with a non-empty word and a non-empty vector
\* set on the grid of a running attempt, returns null only when no
\* (row, col, vector) passes canPlaceWord.
C4_NullOnlyWithoutLegalPlacement ==
    (/\ pc = "words"
     /\ impl = "script"
     /\ wi <= Len(wordsByLength)
     /\ getDirectionVectors(directions) # << >>) =>
        (LegalPlacementExists(grid, wordsByLength[wi], getDirectionVectors(directions))
            => \A o \in placeWordSmart(grid, solution, wordsByLength[wi],
                                       getDirectionVectors(directions)) :
                   o.info # << >>)

\* C5: a round of placeWordSmart calls either records a failure and leaves
\* both grids as they were, or appends one PlacedWordInfo of the word, after
\* which the cells along it hold the word's letters in both grids and every
\* other cell of both grids is as before.
C5_PlacementAllOrNothing ==
    [][(pc = "words" /\ impl = "script" /\ wi' = wi + 1) =>
          \/ /\ placedWordInfos' = placedWordInfos
             /\ grid' = grid
             /\ solution' = solution
          \/ /\ Len(placedWordInfos') = Len(placedWordInfos) + 1
             /\ SubSeq(placedWordInfos', 1, Len(placedWordInfos)) = placedWordInfos
             /\ LET info == placedWordInfos'[Len(placedWordInfos')]
                IN  /\ info.word = wordsByLength[wi]
                    /\ info.length = Len(info.word)
                    /\ Cardinality(InfoCells(info)) = info.length
                    /\ \A i \in 0 .. info.length - 1 :
                           LET rc == InfoCell(info, i)
                           IN  /\ InBounds(size, rc[1], rc[2])
                               /\ grid'[rc[1]][rc[2]] = info.word[i + 1]
                               /\ solution'[rc[1]][rc[2]] = info.word[i + 1]
                    /\ \A rc \in (0 .. size - 1) \X (0 .. size - 1) :
                           rc \notin InfoCells(info) =>
                               /\ grid'[rc[1]][rc[2]] = grid[rc[1]][rc[2]]
                               /\ solution'[rc[1]][rc[2]] = solution[rc[1]][rc[2]]
      ]_vars

C5_Witness ==
    /\ pc = "words"
    /\ impl = "script"
    /\ Len(placedWordInfos) >= 1
    /\ Len(failedWords) >= 1
    /\ EmptyCells(grid) # {}

\* C6: when the best attempt of createPuzzle placed no word, the result is
\* success = false with an error and without grids.
C6_ZeroPlacedIsFailure ==
    (Returned /\ impl = "script" /\ bestScore <= 0) =>
        /\ result.success = "false"
        /\ result.error # ""
        /\ ~IsGrid(result.puzzle)
        /\ ~IsGrid(result.solution)

\* C7: with no direction vector resolved, createPuzzle and generatePuzzle
\* start no outer attempt, create no grid, and return an error without grids.
C7_NoVectorsNoAttempt ==
    (IF impl = "script" THEN getDirectionVectors(directions) = << >>
     ELSE getDirectionVectorsTs(directions) = << >>) =>
        /\ attempt = 0
        /\ pc # "words"
        /\ ~IsGrid(grid)
        /\ ~IsGrid(solution)
        /\ Returned =>
               /\ result.error # ""
               /\ ~IsGrid(result.puzzle)
               /\ ~IsGrid(result.solution)

InSeq(x, s) == \E k \in 1 .. Len(s) : s[k] = x

\* C8: when the best attempt of createPuzzle placed k of the n words,
\* 0 < k < n, the result is a success with grids, every input word is in
\* exactly one of placedWords and failedWords, failedWords has n - k entries,
\* and placedWordInfos holds the placed words' infos in the order of placedWords.
C8_PartialResultPartitionsWords ==
    (/\ Returned
     /\ impl = "script"
     /\ 0 < bestScore
     /\ bestScore < Len(words)) =>
        /\ result.success = "true"
        /\ IsGrid(result.puzzle)
        /\ IsGrid(result.solution)
        /\ Len(result.placedWords) = bestScore
        /\ Len(result.failedWords) = Len(words) - bestScore
        /\ \A n \in 1 .. Len(words) :
               InSeq(words[n], result.placedWords) # InSeq(words[n], result.failedWords)
        /\ \A n \in 1 .. Len(result.placedWords) : InSeq(result.placedWords[n], words)
        /\ \A n \in 1 .. Len(result.failedWords) : InSeq(result.failedWords[n], words)
        /\ Len(result.placedWordInfos) = Len(result.placedWords)
        /\ \A n \in 1 .. Len(result.placedWords) :
               result.placedWordInfos[n].word = result.placedWords[n]

C8_Witness ==
    /\ Returned
    /\ impl = "script"
    /\ 0 < bestScore
    /\ bestScore < Len(words)
    /\ Len(result.failedWords) >= 1
    /\ result.success = "true"

\* C9: in createPuzzle and generatePuzzle bestScore never decreases, and the
\* retained attempt changes only in a step that raises bestScore.
C9_BestScoreMonotonic ==
    [][/\ bestScore' >= bestScore
       /\ << bestGrid, bestSolution, bestPlaced, bestFailed, bestWordInfos >>'
              # << bestGrid, bestSolution, bestPlaced, bestFailed, bestWordInfos >>
            => bestScore' > bestScore
      ]_vars

C9_Witness ==
    /\ retains >= 2
    /\ attempt >= 2
    /\ bestScore >= 1

\* C10: in createPuzzle and generatePuzzle, an outer attempt that ends with an
\* empty failed-word list becomes the retained attempt and ends the loop; the
\* loop once left, the retained attempt is returned and nothing more runs.
C10_PerfectAttemptEndsLoop ==
    [][/\ (pc = "words" /\ wi > Len(wordsByLength) /\ Len(failedWords) = 0) =>
              /\ pc' = "return"
              /\ attempt' = attempt
              /\ bestPlaced' = placedWords
              /\ bestFailed' = << >>
              /\ bestWordInfos' = placedWordInfos
              /\ bestSolution' = solution
              /\ bestScore' = Len(words)
       /\ pc = "return" =>
              /\ pc' = "done"
              /\ result'.returned
              /\ result'.puzzle = bestGrid
              /\ result'.solution = bestSolution
              /\ result'.placedWords = bestPlaced
              /\ result'.failedWords = bestFailed
              /\ result'.placedWordInfos = bestWordInfos
       /\ pc = "done" => pc' = "done"
      ]_vars

C10_Witness ==
    /\ Returned
    /\ attempt >= 1
    /\ attempt < MaxOuterAttempts - 1
    /\ Len(result.failedWords) = 0
    /\ Len(result.placedWords) = Len(words)

----------------------------------------------------------------------------
(* The direction vectors.                                                  *)

\* The vectors the flags stand for: (0,1) for horizontal, (1,0) for vertical,
\* (1,1) and (1,-1) for diagonal, and their opposites when reverse is set too.
VectorsOfFlags(d) ==
    { v \in { -1, 0, 1 } \X { -1, 0, 1 } :
        \/ d.horizontal /\ (v = << 0, 1 >> \/ (d.reverse /\ v = << 0, -1 >>))
        \/ d.vertical /\ (v = << 1, 0 >> \/ (d.reverse /\ v = << -1, 0 >>))
        \/ d.diagonal /\ \/ v = << 1, 1 >>
                         \/ v = << 1, -1 >>
                         \/ d.reverse /\ (v = << -1, 1 >> \/ v = << -1, -1 >>) }

\* C11: for each of the 16 combinations of the flags, getDirectionVectors of
\* script.js and of gridUtils.ts returns pairwise distinct vectors, exactly
\* the ones the flags stand for; the result is empty exactly when horizontal,
\* vertical and diagonal are all false, and never holds (0,0).
C11_DirectionVectorsOfFlags ==
    call.fn \in { "getDirectionVectors", "gridUtils.getDirectionVectors" } =>
        /\ Cardinality(Elements(ret)) = Len(ret)
        /\ Elements(ret) = VectorsOfFlags(call.args)
        /\ (Len(ret) = 0) <=> ~(call.args.horizontal \/ call.args.vertical
                                \/ call.args.diagonal)
        /\ << 0, 0 >> \notin Elements(ret)

\* getDirectionVectors of script.js, called with every flag set, has returned
\* eight vectors.
C11_Witness ==
    /\ call.fn = "getDirectionVectors"
    /\ call.args = Dirs(TRUE, TRUE, TRUE, TRUE)
    /\ Len(ret) = 8

\* C12: PuzzleEngine.getDirectionVectors returns no vector whenever none of
\* horizontal, vertical, diagonal is in the list of selected names (the list
\* with reverse alone included), so that createWordSearch's test for an empty
\* vector list fails the call before any placement.
C12_EngineNoAxisNoVectors ==
    (/\ call.fn = "PuzzleEngine.getDirectionVectors"
     /\ Elements(call.args) \cap { "horizontal", "vertical", "diagonal" } = {})
        => /\ ret = << >>
           /\ noValidDirections(ret)

----------------------------------------------------------------------------
(* The scenarios on the 5 x 5 grid.                                        *)

\* C14: for the word list CAT, DOG, size 5, horizontal and vertical only,
\* every attempt of createPuzzle (script.js) places both words, and every run
\* returns two PlacedWordInfo entries and an empty failedWords list, the two
\* words sharing a cell only where they need the same letter.
C14_CatDogBothPlaced ==
    (words = << CAT, DOG >> /\ size = 5) =>
        /\ failedWords = << >>
        /\ Len(placedWordInfos) = Len(placedWords)
        /\ (pc = "words" /\ wi > Len(wordsByLength)) => Len(placedWordInfos) = 2
        /\ Returned =>
               /\ result.success = "true"
               /\ Len(result.placedWordInfos) = 2
               /\ result.failedWords = << >>
               /\ OverlapsAgree(result.placedWordInfos)
               /\ \A k \in 1 .. 2 :
                      LiesIn(result.placedWordInfos[k], result.puzzle,
                             result.solution)

\* A run of the CAT, DOG call has returned with one word placed along (0,1)
\* and the other along (1,0).
C14_Witness ==
    /\ words = << CAT, DOG >>
    /\ Returned
    /\ Len(result.placedWordInfos) = 2
    /\ result.placedWordInfos[1].dCol = 1
    /\ result.placedWordInfos[2].dRow = 1

----------------------------------------------------------------------------
(* The capsule geometry.                                                   *)

\* The pixel centre << x, y >> of the cell (row, col): half a cell past the
\* cell's corner on both axes.
PixelCentre(row, col, cellSize) ==
    << ((2 * col + 1) * cellSize) \div 2, ((2 * row + 1) * cellSize) \div 2 >>

\* The centre << x, y >> in what the last call returned.
ReturnedCentre ==
    IF call.fn = "getCapsuleOverlays" THEN << ret.cx, ret.cy >>
    ELSE << ret.centerX, ret.centerY >>

\* C16: for a PlacedWordInfo with vector (0,1), whatever its start cell, its
\* length and the cell size, the capsule of getCapsuleOverlays and of
\* CapsuleRenderer.getCapsuleDimensions has angle 0 and its centre in the
\* middle between the pixel centres of the word's first and last cells; for
\* start (0,0), length 4 and a cell of one pixel the centre is (2, 0.5).
C16_HorizontalCapsuleCentred ==
    (/\ call.fn \in { "getCapsuleOverlays", "getCapsuleDimensions" }
     /\ call.args.info.dRow = 0
     /\ call.args.info.dCol = 1) =>
        LET info  == call.args.info
            last  == InfoCell(info, info.length - 1)
            first == PixelCentre(info.startRow, info.startCol, call.args.cellSize)
            final == PixelCentre(last[1], last[2], call.args.cellSize)
        IN  /\ ret.angle = 0
            /\ 2 * ReturnedCentre[1] = first[1] + final[1]
            /\ 2 * ReturnedCentre[2] = first[2] + final[2]
            /\ (/\ info.startRow = 0
                /\ info.startCol = 0
                /\ info.length = 4
                /\ call.args.cellSize = 20) => ReturnedCentre = << 2 * 20, 10 >>

\* getCapsuleDimensions has been called for the word of length 4 from (0,0)
\* along (0,1) with a cell of one pixel.
C16_Witness ==
    /\ call.fn = "getCapsuleDimensions"
    /\ call.args.cellSize = 20
    /\ call.args.info.startRow = 0
    /\ call.args.info.startCol = 0
    /\ call.args.info.dRow = 0
    /\ call.args.info.dCol = 1
    /\ call.args.info.length = 4
    /\ ret.angle = 0
    /\ ret.centerX = 40
    /\ ret.centerY = 10

\* C17: for the same PlacedWordInfo and the same square cell size, the
\* capsules of getCapsuleOverlays, of renderAllCapsulesWithViewBox and of
\* renderCapsuleOverlay have the same length, the same width, the same angle
\* and the same centre from the grid's corner.
C17_SameCapsuleOnEverySurface ==
    call.fn = "getCapsuleOverlays" =>
        LET info    == call.args.info
            cs      == call.args.cellSize
            modular == renderAllCapsulesWithViewBox(info, cs, cs)
            script  == renderCapsuleOverlay(info, cs)
        IN  /\ ret.capsuleWidth = modular.capsuleWidth
            /\ ret.capsuleWidth = script.capsuleWidth
            /\ ret.angle = modular.angle
            /\ ret.angle = script.angle
            /\ << ret.cx, ret.cy >> = << modular.centerX, modular.centerY >>
            /\ << ret.cx, ret.cy >>
                   = << script.cx + script.svgLeft, script.cy + script.svgTop >>
            /\ ret.capsuleLength = modular.capsuleLength
            /\ ret.capsuleLength = script.capsuleLength

----------------------------------------------------------------------------
(* GridUtils.                                                              *)

\* The last call's (row, col) names a cell of its grid.
AddressesCell ==
    /\ 0 <= call.args.row
    /\ call.args.row < GridSize(call.args.grid)
    /\ 0 <= call.args.col
    /\ call.args.col < GridSize(call.args.grid)

\* C18: on every square grid, the 0 x 0 grid included, and for every
\* (row, col), getCell and setCell do not throw; getCell out of bounds returns
\* null (and the cell otherwise, the grid as it was); setCell out of bounds
\* returns false and leaves every cell as it was; setCell in bounds returns
\* true and changes the addressed cell alone.
C18_CellAccessIsBoundsChecked ==
    /\ call.fn = "GridUtils.getCell" =>
           /\ ~ret.threw
           /\ ret.grid = call.args.grid
           /\ ~AddressesCell => ret.value = Null
           /\ AddressesCell =>
                  ret.value = call.args.grid[call.args.row][call.args.col]
    /\ call.fn = "GridUtils.setCell" =>
           /\ ~ret.threw
           /\ ~AddressesCell => (ret.value = FALSE /\ ret.grid = call.args.grid)
           /\ AddressesCell =>
                  /\ ret.value = TRUE
                  /\ DOMAIN ret.grid = DOMAIN call.args.grid
                  /\ \A r, c \in DOMAIN call.args.grid :
                         ret.grid[r][c] =
                             IF r = call.args.row /\ c = call.args.col
                             THEN call.args.value
                             ELSE call.args.grid[r][c]

\* setCell has been called on the 0 x 0 grid with row 0 and column 0 and has
\* returned false.
C18_Witness ==
    /\ call.fn = "GridUtils.setCell"
    /\ GridSize(call.args.grid) = 0
    /\ call.args.row = 0
    /\ call.args.col = 0
    /\ ~ret.threw
    /\ ret.value = FALSE

----------------------------------------------------------------------------
(* canPlaceWord.                                                           *)

\* Cell i of the last call's word lies inside the call's grid and is empty
\* or holds the word's letter of index i.
CellAccepts(i) ==
    LET a   == call.args
        row == a.startRow + i * a.dRow
        col == a.startCol + i * a.dCol
    IN  /\ row \in 0 .. GridSize(a.grid) - 1
        /\ col \in 0 .. GridSize(a.grid) - 1
        /\ a.grid[row][col] \in { "", a.word[i + 1] }

\* C19: canPlaceWord (script.js and wordPlacer.ts) returns true exactly when
\* every cell of the word along the vector lies inside the grid and is empty
\* or holds the word's letter; it reads no cell outside the grid and leaves
\* the grid as it was.
C19_CanPlaceWordIffFits ==
    call.fn \in { "canPlaceWord", "wordPlacer.canPlaceWord" } =>
        /\ ret.value <=> \A i \in 0 .. Len(call.args.word) - 1 : CellAccepts(i)
        /\ \A rc \in ret.reads :
               /\ rc[1] \in 0 .. GridSize(call.args.grid) - 1
               /\ rc[2] \in 0 .. GridSize(call.args.grid) - 1
        /\ ret.grid = call.args.grid

\* canPlaceWord has returned true for a word that crosses a cell holding its
\* letter.
C19_Witness ==
    /\ call.fn = "canPlaceWord"
    /\ ret.value
    /\ \E rc \in ret.reads : call.args.grid[rc[1]][rc[2]] # ""

----------------------------------------------------------------------------
(* placeWordSmart's choice.                                                *)

\* The candidates of the last call of placeWordSmart that canPlaceWord
\* accepts.
LegalCandidates ==
    LET a == call.args
    IN  { c \in (DOMAIN a.grid) \X (DOMAIN a.grid)
                \X { -1, 0, 1 } \X { -1, 0, 1 } :
            /\ << c[3], c[4] >> \in Elements(getDirectionVectors(a.directions))
            /\ canPlaceWord(a.grid, a.word, c[1], c[2], << c[3], c[4] >>) }

\* The (doubled) score placeWordSmart gives the candidate c.
ScoreOf(c) ==
    candidateScore2(call.args.grid, call.args.word, c,
                    countFilledCells(call.args.grid),
                    GridSize(call.args.grid) * GridSize(call.args.grid))

\* The placements the last call of placeWordSmart can commit.
Committed == { o.info[1] : o \in { x \in ret : x.info # << >> } }

\* C20: whenever placeWordSmart (script.js) commits a placement, the
\* placements it can commit over all its random choices are exactly the legal
\* candidates whose score is the highest of all legal candidates on the grid:
\* none with a lower score, and every one with the highest.
C20_CommitsExactlyTheBestCandidates ==
    (call.fn = "placeWordSmart" /\ Committed # {}) =>
        Committed =
            { PlacedInfo(call.args.word, c) :
                c \in { b \in LegalCandidates :
                          \A d \in LegalCandidates : ScoreOf(d) <= ScoreOf(b) } }

\* A call of placeWordSmart can commit two placements and has a legal
\* candidate of a lower score, not below the initial bestScore, that it
\* cannot commit.
C20_Witness ==
    /\ call.fn = "placeWordSmart"
    /\ Cardinality(Committed) >= 2
    /\ \E c \in LegalCandidates :
           /\ PlacedInfo(call.args.word, c) \notin Committed
           /\ ScoreOf(c) >= 2 * initialBestScore

----------------------------------------------------------------------------
(* The spacing score.                                                      *)

\* The cells the last call's word would occupy.
CandidateCells ==
    { CellAt(call.args.startRow, call.args.startCol,
             << call.args.dRow, call.args.dCol >>, i)
      : i \in 0 .. Len(call.args.word) - 1 }

\* n is one of the eight neighbours of c.
IsNeighbour(c, n) ==
    /\ n # c
    /\ n[1] - c[1] \in { -1, 0, 1 }
    /\ n[2] - c[2] \in { -1, 0, 1 }

\* C21: for a legal candidate, calculateSpacingScore (script.js) is minus the
\* number of pairs (c, n) of a cell c of the word and an in-grid 8-neighbour
\* n of c that holds a letter and is not itself a cell of the word: a filled
\* cell the word overlaps is not counted against the word's adjacent cells.
C21_SpacingIgnoresWordCells ==
    call.fn = "calculateSpacingScore" =>
        ret = 0 - Cardinality(
                    { p \in CandidateCells
                              \X ((DOMAIN call.args.grid) \X (DOMAIN call.args.grid)) :
                        /\ IsNeighbour(p[1], p[2])
                        /\ call.args.grid[p[2][1]][p[2][2]] # ""
                        /\ p[2] \notin CandidateCells })

----------------------------------------------------------------------------
(* The order of the words.                                                 *)

\* sorted holds the entries of ws, longest first, the entries of one length
\* in the order they have in ws.
IsStableSortByLength(sorted, ws) ==
    /\ Len(sorted) = Len(ws)
    /\ \E p \in [1 .. Len(ws) -> 1 .. Len(ws)] :
           /\ \A i \in 1 .. Len(ws) : sorted[i] = ws[p[i]]
           /\ \A i, j \in 1 .. Len(ws) :
                  i < j => \/ Len(ws[p[i]]) > Len(ws[p[j]])
                           \/ (Len(ws[p[i]]) = Len(ws[p[j]]) /\ p[i] < p[j])

NonIncreasingLengths(infos) ==
    \A i, j \in 1 .. Len(infos) : i < j => infos[i].length >= infos[j].length

\* C22: within each outer attempt of createPuzzle and generatePuzzle the
\* words are attempted longest first, words of one length in their input
\* order, one after the other; the caller's word list keeps its order; the
\* lengths in placedWordInfos, running and returned, never increase.
C22_WordsAttemptedLongestFirst ==
    /\ [](/\ pc = "words" => IsStableSortByLength(wordsByLength, words)
          /\ NonIncreasingLengths(placedWordInfos)
          /\ NonIncreasingLengths(bestWordInfos)
          /\ Returned => NonIncreasingLengths(result.placedWordInfos))
    /\ [][/\ words' = words
          /\ (pc = "words" /\ wi <= Len(wordsByLength)) =>
                 /\ wi' = wi + 1
                 /\ wordsByLength' = wordsByLength
                 /\ \/ /\ placedWords' = Append(placedWords, wordsByLength[wi])
                       /\ failedWords' = failedWords
                    \/ /\ failedWords' = Append(failedWords, wordsByLength[wi])
                       /\ placedWords' = placedWords
         ]_vars

\* A call whose word list has the shorter word first has returned both words
\* placed, the longer one first.
C22_Witness ==
    /\ Returned
    /\ words = << A, AB >>
    /\ Len(result.placedWordInfos) = 2
    /\ result.placedWordInfos[1].word = AB
    /\ result.placedWordInfos[2].word = A

----------------------------------------------------------------------------
(* The attempt that is returned.                                           *)

\* The placed-word counts of the outer attempts that ran.
Counts == { n \in DOMAIN firstWith : firstWith[n] # -1 }

MaxCount == CHOOSE m \in Counts : \A n \in Counts : n <= m

\* The number (from 0) of the earliest outer attempt that placed MaxCount
\* words.
EarliestBest == firstWith[MaxCount]

\* C23: the attempt createPuzzle (script.js) retains and returns is the
\* earliest outer attempt whose placed-word count is the highest of all outer
\* attempts that ran; a step that changes the retained attempt takes the
\* puzzle grid, the solution grid, placedWords, failedWords and
\* placedWordInfos all from the attempt that has just finished, and the
\* result holds the five retained values.
C23_ReturnsEarliestBestAttempt ==
    /\ []((impl = "script" /\ Counts # {}) =>
              /\ retainedAt = EarliestBest
              /\ Len(bestPlaced) = MaxCount
              /\ Len(bestWordInfos) = MaxCount
              /\ Returned =>
                     /\ result.success = "true"
                     /\ Len(result.placedWords) = MaxCount)
    /\ [][impl = "script" =>
             /\ << bestGrid, bestSolution, bestPlaced, bestFailed, bestWordInfos,
                   retainedAt >>'
                    # << bestGrid, bestSolution, bestPlaced, bestFailed,
                         bestWordInfos, retainedAt >>
                  => /\ pc = "words"
                     /\ wi > Len(wordsByLength)
                     /\ retainedAt' = attempt
                     /\ bestGrid' \in fillRemainingCells(grid)
                     /\ bestSolution' = solution
                     /\ bestPlaced' = placedWords
                     /\ bestFailed' = failedWords
                     /\ bestWordInfos' = placedWordInfos
             /\ (pc = "return" /\ pc' = "done" /\ IsGrid(bestGrid)) =>
                    /\ result'.puzzle = bestGrid
                    /\ result'.solution = bestSolution
                    /\ result'.placedWords = bestPlaced
                    /\ result'.failedWords = bestFailed
                    /\ result'.placedWordInfos = bestWordInfos
         ]_vars

\* createPuzzle has returned its second attempt, which placed more words
\* than the first one, after all ten attempts.
C23_Witness ==
    /\ Returned
    /\ impl = "script"
    /\ attempt = MaxOuterAttempts
    /\ retainedAt = 1
    /\ EarliestBest = 1
    /\ \E n \in Counts : n < MaxCount /\ firstWith[n] = 0

----------------------------------------------------------------------------
(* Termination.                                                            *)

\* C24: createPuzzle (script.js) runs at most 10 outer attempts, calls
\* placeWordSmart at most 1000 times for a word within an attempt, and comes
\* to return a result, whatever the random choices.
C24_CreatePuzzleTerminates ==
    /\ [](/\ attempt <= MaxOuterAttempts
          /\ pc = "words" => attempt < MaxOuterAttempts
          /\ tries <= attemptsPerWord)
    /\ <>(pc = "done" /\ result.returned)
    /\ [][pc = "done" => pc' = "done"]_vars

\* The last call of placeWordSmart for a word in the last outer attempt has
\* returned null.
C24_Witness ==
    /\ pc = "words"
    /\ attempt = MaxOuterAttempts - 1
    /\ tries = attemptsPerWord
    /\ Len(placedWords) >= 1

----------------------------------------------------------------------------
(* The modular engine's result.                                            *)

\* The words of infos are the words ws, each as often as in ws.
SameWords(infos, ws) ==
    /\ Len(infos) = Len(ws)
    /\ \A w \in Elements(ws) :
           Cardinality({ k \in 1 .. Len(infos) : infos[k].word = w })
               = Cardinality({ k \in 1 .. Len(ws) : ws[k] = w })

\* C25: PuzzleEngine.createWordSearch returns success only from an attempt in
\* which every input word was placed (one PlacedWordInfo per input word, the
\* puzzle grid without an empty cell); an attempt is abandoned at its first
\* unplaceable word; after 1000 attempts without a complete placement it
\* returns success = false with an error and no grids, never a partial puzzle.
C25_EngineAllOrNothing ==
    /\ []((impl = "engine" /\ Returned) =>
             IF result.success = "true"
             THEN /\ SameWords(result.placedWordInfos, words)
                  /\ \A k \in 1 .. Len(result.placedWordInfos) :
                         LiesIn(result.placedWordInfos[k], result.puzzle,
                                result.solution)
                  /\ EmptyCells(result.puzzle) = {}
                  /\ attempt < maxAttempts
             ELSE /\ result.success = "false"
                  /\ result.error # ""
                  /\ ~IsGrid(result.puzzle)
                  /\ ~IsGrid(result.solution)
                  /\ result.placedWordInfos = << >>
                  /\ \/ attempt = maxAttempts
                     \/ noValidDirections(EngineGetDirectionVectors(directions)))
    /\ [][(impl = "engine" /\ pc = "words" /\ wi <= Len(wordsByLength)) =>
             \/ /\ Len(placedWordInfos') = Len(placedWordInfos) + 1
                /\ placedWordInfos'[Len(placedWordInfos')].word = wordsByLength[wi]
                /\ wi' = wi + 1
             \/ /\ pc' = "attempted"
                /\ ~allWordsPlaced(wi', wordsByLength')
                /\ UNCHANGED << grid, solution, placedWordInfos >>
         ]_vars
    /\ [][(impl = "engine" /\ pc = "attempted" /\ wi <= Len(wordsByLength)) =>
             /\ pc' = "loop"
             /\ attempt' = attempt + 1
             /\ result' = result
         ]_vars

\* The engine has returned a puzzle with three words after an attempt that
\* was abandoned.
C25_Witness ==
    /\ impl = "engine"
    /\ Returned
    /\ result.success = "true"
    /\ attempt >= 1
    /\ Len(result.placedWordInfos) = 3

----------------------------------------------------------------------------
(* The directions of the placed words.                                     *)

\* C26: every PlacedWordInfo createPuzzle (script.js) returns has (dRow, dCol)
\* among the vectors resolved from the direction flags and length equal to
\* the length of its word; with reverse off no placed word has dRow = -1 or
\* the vector (0, -1), and with diagonal off every placed word has dRow = 0
\* or dCol = 0.
C26_PlacedWordsFollowDirections ==
    (impl = "script" /\ Returned) =>
        \A k \in 1 .. Len(result.placedWordInfos) :
            LET info == result.placedWordInfos[k]
            IN  /\ << info.dRow, info.dCol >> \in Elements(getDirectionVectors(directions))
                /\ info.length = Len(info.word)
                /\ ~directions.reverse =>
                       /\ info.dRow # -1
                       /\ << info.dRow, info.dCol >> # << 0, -1 >>
                /\ ~directions.diagonal => (info.dRow = 0 \/ info.dCol = 0)
                /\ info.dCol = 0 => directions.vertical
                /\ info.dRow = 0 => directions.horizontal

\* createPuzzle has returned a word of two letters placed down-left with
\* reverse off.
C26_Witness ==
    /\ impl = "script"
    /\ Returned
    /\ \E k \in 1 .. Len(result.placedWordInfos) :
           /\ ~directions.reverse
           /\ result.placedWordInfos[k].dRow = 1
           /\ result.placedWordInfos[k].dCol = -1
           /\ result.placedWordInfos[k].length = 2

----------------------------------------------------------------------------
(* The delayed overlay.                                                     *)

----------------------------------------------------------------------------
(* The two grids of one attempt.                                            *)

\* Every letter of sol is at its place in display.
KeepsSolutionLetters(display, sol) ==
    \A i \in DOMAIN sol : \A j \in DOMAIN sol[i] :
        sol[i][j] # "" => display[i][j] = sol[i][j]

\* C28: within one attempt of createWordSearch (script.js) the display grid
\* and the solution grid are equal cell for cell after every placeWordSmart
\* call before fillRemainingCells runs; fillRemainingCells leaves the solution
\* grid unchanged, and every non-empty solution cell equals the display cell
\* at its position after the fill.
C28_GridsAgreeThroughAttempt ==
    /\ []((impl = "script" /\ pc = "words") =>
             /\ IsGrid(grid)
             /\ grid = solution
             /\ \A filled \in fillRemainingCells(grid) :
                    KeepsSolutionLetters(filled, solution))
    /\ [][(impl = "script" /\ pc = "words" /\ wi > Len(wordsByLength)
              /\ retains' = retains + 1) =>
             /\ bestSolution' = solution
             /\ bestGrid' \in fillRemainingCells(grid)
             /\ KeepsSolutionLetters(bestGrid', bestSolution')
         ]_vars

\* An attempt in which a word has been placed, a later call of placeWordSmart
\* has failed, and cells are left for the fill.
C28_Witness ==
    /\ impl = "script"
    /\ pc = "words"
    /\ placedWordInfos # << >>
    /\ tries >= 1
    /\ EmptyCells(grid) # {}

----------------------------------------------------------------------------
(* The inner loop's repeated calls.                                         *)

\* The outcomes of a call of placeWordSmart are all null or all a placement.
SameVerdict(outs) ==
    \A o1 \in outs, o2 \in outs : (o1.info = << >>) = (o2.info = << >>)

\* C29: whether placeWordSmart places a word depends on the grid, the word
\* and the vectors alone, not on the shuffles or the tie-break; once the first
\* call of the inner loop for a word has failed, every further call for that
\* word in the same outer attempt fails and leaves the grids unchanged, until
\* the word is given up after attemptsPerWord calls.
C29_FailureIsDeterministic ==
    /\ []((impl = "script" /\ pc = "words" /\ wi <= Len(wordsByLength)) =>
             SameVerdict(placeWordSmart(grid, solution, wordsByLength[wi],
                                        getDirectionVectors(directions))))
    /\ [][(impl = "script" /\ pc = "words" /\ wi <= Len(wordsByLength)
              /\ tries >= 1) =>
             /\ grid' = grid
             /\ solution' = solution
             /\ placedWords' = placedWords
             /\ placedWordInfos' = placedWordInfos
             /\ \/ /\ tries < attemptsPerWord
                   /\ tries' = tries + 1
                   /\ wi' = wi
                   /\ failedWords' = failedWords
                \/ /\ tries = attemptsPerWord
                   /\ wi' = wi + 1
                   /\ failedWords' = Append(failedWords, wordsByLength[wi])
         ]_vars

\* The last call of the inner loop has failed for a word, in an attempt that
\* placed a word before it.
C29_Witness ==
    /\ impl = "script"
    /\ pc = "words"
    /\ wi <= Len(wordsByLength)
    /\ tries = attemptsPerWord
    /\ placedWords # << >>
    /\ EmptyCells(grid) # {}

----------------------------------------------------------------------------
(* The two legality checks.                                                 *)

\* C30: for every square grid, every non-empty word, every start cell inside
\* the grid and every unit vector, PuzzleEngine.canPlaceWord returns the
\* boolean canPlaceWord of script.js returns, and reads no cell outside the
\* grid.
C30_EngineCanPlaceWordAgrees ==
    (/\ call.fn = "PuzzleEngine.canPlaceWord"
     /\ InBounds(GridSize(call.args.grid), call.args.startRow, call.args.startCol))
    => /\ ~ret.threw
       /\ ret.value = canPlaceWord(call.args.grid, call.args.word,
                                   call.args.startRow, call.args.startCol,
                                   << call.args.dRow, call.args.dCol >>)
       /\ \A rc \in ret.reads : InBounds(GridSize(call.args.grid), rc[1], rc[2])

\* PuzzleEngine.canPlaceWord has accepted a word that runs up and to the left
\* from a start cell inside the grid, over a cell that holds a letter.
C30_Witness ==
    /\ call.fn = "PuzzleEngine.canPlaceWord"
    /\ InBounds(GridSize(call.args.grid), call.args.startRow, call.args.startCol)
    /\ call.args.dRow = -1
    /\ call.args.dCol = -1
    /\ ret.value
    /\ Cardinality(ret.reads) = Len(call.args.word)
    /\ \E rc \in ret.reads : call.args.grid[rc[1]][rc[2]] # ""

=============================================================================
